---- MODULE Spec2Model ----
(***************************************************************************)
(* Model of the album-likes service of hapi-fundamental:                   *)
(*   src/src/services/postgres/AlbumLikesService.js  (addLike, deleteLike, *)
(*   countLikes) on top of the Redis CacheService (guide, section 10) and  *)
(*   the user_album_likes table.                                           *)
(*                                                                         *)
(* and of the playlist service of the same application:                   *)
(*   src/src/api/playlists/handler.js  (PlaylistsService: addPlaylist,     *)
(*   deletePlaylistById, addPlaylistSong, getPlaylistSongsById,            *)
(*   deletePlaylistSong, verifyPlaylistOwner) on the playlists and         *)
(*   playlist_songs tables.                                                *)
(*                                                                         *)
(* Every request is handled by a task p; a task is suspended at each       *)
(* `await` of a store or cache call, so each await is one atomic step and  *)
(* steps of different tasks interleave freely.                             *)
(***************************************************************************)
EXTENDS Integers, Sequences, FiniteSets, TLC

\* ------------------------------------------------------------------ bounds
Procs  == {"p1", "p2"}
Users  == {"u1", "u2"}
Albums == {"a1", "a2"}
\* number of distinct like ids nanoid can hand out (rows live at one time)
MaxRows == 4
\* number of requests the clients make in one run: with concurrent requests
\* and an unreliable Redis,
MaxCalls == 2
\* with concurrent requests and Redis reachable,
MaxRaceCalls == 3
\* with one request at a time and Redis reachable
MaxSeqCalls == 4
\* with concurrent requests, Redis reachable and entries that do expire
MaxFairCalls == 2
\* with likes and playlist requests side by side, an unreliable Redis, and
\* store and cache calls that do return
MaxTermCalls == 2
\* requests to the likes handlers
MaxHandlerCalls == 2
\* number of song ids nanoid hands out to the in-memory SongService in one run
MaxSongs == 3
\* the payloads of a song
Titles == {"t1", "t2"}
\* number of playlist ids nanoid hands out in one run (an id is never reused)
MaxPlaylists == 2
\* number of playlist requests the clients make in one run
MaxPlaylistCalls == 3
\* rows of table songs (the song service is not part of this model), and the
\* song ids a request may name: "s0" is the id of no song
\* number of activity ids nanoid hands out in one run
MaxActivities == 2
\* number of milliseconds the clock advances in one run
MaxTime == 1
\* number of requests in one run of the activity log, one request at a time
MaxActivityCalls == 5
Songs   == {"s1"}
SongIds == {"s1", "s0"}
\* largest like count whose cached text is parsed back
MaxCount == 120

\* ------------------------------------------------------- program constants
\* CacheService.set(key, value, expirationInSeconds = 3600)
DefaultExpiration == 3600

VARIABLES
  likes,        \* table user_album_likes: set of rows [id, user_id, album_id]
  cache,        \* Redis: key -> entry [value, EX], or Absent
  connected,    \* Redis client connection is usable
  pc,           \* per task: the await it is suspended at ("idle" = no call in flight)
  op,           \* per task: the service method of its current / last call
  userId,       \* per task: argument userId
  albumId,      \* per task: argument albumId
  result,       \* per task: ids returned by the INSERT / DELETE ... RETURNING id
  count,        \* per task: countLikes' local `count`
  error,        \* per task: what countLikes' catch block caught
  outcome,      \* per task: what the call returned or threw
  playlists,    \* table playlists: set of rows [id, owner]
  playlistSongs,\* table playlist_songs: set of rows [id, playlist_id, song_id]
  created,      \* number of playlist ids handed out so far
  playlistId,   \* per task: argument playlistId
  songId,       \* per task: argument songId
  activities,   \* table playlist_song_activities: set of rows
                \* [id, playlist_id, song_id, user_id, action, time]
  logged,       \* number of activity ids handed out so far
  now,          \* the clock read by new Date(), in milliseconds
  action,       \* per task: argument action of addActivity
  time,         \* per task: addActivity's local `time`
  listed,       \* per task: the rows its last getActivities returned
  albums,       \* table albums: set of the ids of its rows
  albumIds,     \* the album ids handed out so far
  handler,      \* per task: the likes handler that served its current / last
                \* request ("none": no handler has, the service was called directly)
  songs,        \* SongService._songs: sequence of songs [id, title]
  songsAdded,   \* number of song ids handed out so far
  songCall,     \* the last SongService call: [method, id, outcome, value]
  \* history variables (record what happened; never read by the program)
  hist,         \* per (user, album): last successful mutation
  fresh,        \* per album: what emptied the entry since the last countLikes call:
                \* "cold" (never filled), "mutated", "expired", or "no" (nothing)
  first,        \* per task: value of fresh[albumId] when its countLikes was called
  overlap,      \* per task: tasks that were in flight during its current / last call
  likedAtCall,  \* per task: the (userId, albumId) row existed when the call was made
  calls,        \* number of requests made so far
  gate,         \* per task: how verifyPlaylistOwner ended in its current / last
                \* operation ("none": not reached)
  passed,       \* (playlist, user) pairs for which verifyPlaylistOwner has returned
                \* normally
  deleted,      \* ids of the playlists whose row has been deleted
  staleGate,    \* per task: after its gate had passed, a later store step of the
                \* operation ran while the playlist row was gone
  likedAgain,   \* per task: a row of its (userId, albumId) was inserted during its
                \* current / last call
  issued,       \* per task: the awaits whose store or cache call its current / last
                \* invocation has issued
  ownedAtCall,  \* per task: the playlist it names existed and belonged to the caller
                \* when the call was made
  appended,     \* per playlist: the records added by addActivity, in the order of
                \* their INSERTs
  lastListed,   \* per playlist: what the last getActivities returned
  coldClean,    \* per task: its countLikes was called on an absent entry while no
                \* addLike / deleteLike on the album was in flight, and none has
                \* been called since
  removedSongs, \* ids of the songs for which deleteSongById has returned normally
  lastCount     \* per album: count returned by the last countLikes since the last
                \* addLike / deleteLike call on the album (-1: none yet)

playlistVars == << playlists, playlistSongs, created, playlistId, songId >>
likesVars    == << likes, cache, connected, albumId >>
activityVars == << activities, logged, now, action, time, listed >>
albumVars    == << albums, albumIds, handler >>
songVars     == << songs, songsAdded, songCall >>

vars == << likes, cache, connected, pc, op, userId, albumId, result, count,
           error, outcome, playlists, playlistSongs, created, playlistId, songId,
           activities, logged, now, action, time, listed, albums, albumIds,
           handler, songs, songsAdded, songCall, likedAgain, issued,
           ownedAtCall, appended,
           lastListed,
           hist, fresh, first, overlap, likedAtCall, calls,
           gate, passed, deleted, staleGate, coldClean, removedSongs, lastCount >>

\* ------------------------------------------------------------ conversions
Digits == << "0", "1", "2", "3", "4", "5", "6", "7", "8", "9" >>

DigitValue(c) == CHOOSE d \in 0..9 : Digits[d + 1] = c

RECURSIVE JSONStringify(_)
\* JSON.stringify(n) for a non-negative integer: its decimal digits
JSONStringify(n) ==
  IF n < 10 THEN << Digits[n + 1] >>
  ELSE Append(JSONStringify(n \div 10), Digits[(n % 10) + 1])

RECURSIVE ParseDigits(_, _)
ParseDigits(s, acc) ==
  IF s = << >> THEN acc
  ELSE ParseDigits(Tail(s), acc * 10 + DigitValue(Head(s)))

\* mutant: the text's length is taken for its value
JSONParse_length(s) == Len(s)

\* JSON.parse(text) of a decimal literal
JSONParse(s) == ParseDigits(s, 0)

\* parseInt(text, 10) of a decimal literal (pg returns COUNT(*) as a string)
parseInt(s) == ParseDigits(s, 0)

\* new Date().toISOString(): a text of fixed width; here its millisecond
\* field, three digits with leading zeros
toISOString(t) ==
  << Digits[((t \div 100) % 10) + 1], Digits[((t \div 10) % 10) + 1], Digits[(t % 10) + 1] >>

RECURSIVE TextLess(_, _)
\* column time is TEXT: ORDER BY compares the texts character by character
TextLess(a, b) ==
  IF b = << >> THEN FALSE
  ELSE IF a = << >> THEN TRUE
  ELSE IF Head(a) # Head(b) THEN DigitValue(Head(a)) < DigitValue(Head(b))
  ELSE TextLess(Tail(a), Tail(b))

\* --------------------------------------------------------------- the store
\* null reply of Redis: no entry under the key
Absent == [value |-> << >>, EX |-> 0]
NoIds  == {}

LikeIds == 1..MaxRows

RowsOf(rows, u, a) == { r \in rows : r.user_id = u /\ r.album_id = a }

\* nanoid(16): an id no row carries
FreshIds(rows) == LikeIds \ { r.id : r \in rows }
nanoid(rows)   == CHOOSE i \in FreshIds(rows) : \A j \in FreshIds(rows) : i <= j

\* SELECT id FROM user_album_likes WHERE user_id = $1 AND album_id = $2  (rowCount)
SelectLike(rows, u, a) == Cardinality(RowsOf(rows, u, a))

\* mutant: the table has no uniqueness constraint
UniqueViolation_none(rows, u, a) == FALSE

\* the table's uniqueness constraint on (user_id, album_id)
UniqueViolation(rows, u, a) == RowsOf(rows, u, a) # {}

\* INSERT INTO user_album_likes (id, user_id, album_id) VALUES (...) RETURNING id
InsertLike(rows, id, u, a) == rows \cup { [id |-> id, user_id |-> u, album_id |-> a] }

\* DELETE FROM user_album_likes WHERE user_id = $1 AND album_id = $2 RETURNING id
DeleteLike(rows, u, a) == rows \ RowsOf(rows, u, a)

\* SELECT COUNT(*) AS count FROM user_album_likes WHERE album_id = $1
\* (pg hands a bigint back as a decimal string)
CountLikesQuery(rows, a) ==
  JSONStringify(Cardinality({ r \in rows : r.album_id = a }))

\* --------------------------------------------------------------- the cache
CacheKey(a) == << "album-likes:", a >>
Keys        == { CacheKey(a) : a \in Albums }

\* mutant: the entry is written without an expiry
CacheSet_persistent(c, key, value) ==
  [c EXCEPT ![key] = [value |-> value, EX |-> 0]]

\* CacheService.set: client.set(key, value, { EX: expirationInSeconds })
CacheSet(c, key, value) ==
  [c EXCEPT ![key] = [value |-> value, EX |-> DefaultExpiration]]

\* CacheService.delete: client.del(key)
CacheDelete(c, key) == [c EXCEPT ![key] = Absent]

\* ---------------------------------------------------------------- results
\* no song (undefined in the source)
NoSong == [id |-> 0, title |-> "none"]

NoOutcome == [kind |-> "none", value |-> 0, fromCache |-> FALSE]
\* a resolved promise
Ok(v, fc) == [kind |-> "ok", value |-> v, fromCache |-> fc]
\* a rejected promise; kinds: "ConflictError" (InvariantError), "NotFoundError",
\* "StoreFailure" (error thrown by pg), "CacheTransportFailure" (error thrown
\* by the redis client)
Throw(k) == [kind |-> k, value |-> 0, fromCache |-> FALSE]

\* no SongService method has been called yet
NoSongCall == [method |-> "none", id |-> 0, outcome |-> "none", value |-> NoSong]

Init ==
  /\ likes = {}
  /\ cache = [k \in Keys |-> Absent]
  /\ connected = TRUE
  /\ pc = [p \in Procs |-> "idle"]
  /\ op = [p \in Procs |-> "none"]
  /\ userId = [p \in Procs |-> "u1"]
  /\ albumId = [p \in Procs |-> "a1"]
  /\ result = [p \in Procs |-> NoIds]
  /\ count = [p \in Procs |-> 0]
  /\ error = [p \in Procs |-> "none"]
  /\ outcome = [p \in Procs |-> NoOutcome]
  /\ playlists = {}
  /\ playlistSongs = {}
  /\ created = 0
  /\ playlistId = [p \in Procs |-> 0]
  /\ songId = [p \in Procs |-> "s1"]
  /\ activities = {}
  /\ logged = 0
  /\ now = 0
  /\ action = [p \in Procs |-> "add"]
  /\ time = [p \in Procs |-> toISOString(0)]
  /\ listed = [p \in Procs |-> << >>]
  /\ albums = {}
  /\ albumIds = {}
  /\ handler = [p \in Procs |-> "none"]
  /\ songs = << >>
  /\ songsAdded = 0
  /\ songCall = NoSongCall
  /\ likedAgain = [p \in Procs |-> FALSE]
  /\ issued = [p \in Procs |-> {}]
  /\ ownedAtCall = [p \in Procs |-> FALSE]
  /\ appended = [pl \in 0..MaxPlaylists |-> << >>]
  /\ lastListed = [pl \in 0..MaxPlaylists |-> << >>]
  /\ hist = [u \in Users, a \in Albums |-> "none"]
  /\ fresh = [a \in Albums |-> "cold"]
  /\ first = [p \in Procs |-> "cold"]
  /\ overlap = [p \in Procs |-> {}]
  /\ likedAtCall = [p \in Procs |-> FALSE]
  /\ calls = 0
  /\ gate = [p \in Procs |-> "none"]
  /\ passed = {}
  /\ deleted = {}
  /\ staleGate = [p \in Procs |-> FALSE]
  /\ coldClean = [p \in Procs |-> FALSE]
  /\ removedSongs = {}
  /\ lastCount = [a \in Albums |-> -1]

AllIdle == \A p \in Procs : pc[p] = "idle"
InFlight == { p \in Procs : pc[p] # "idle" }

\* ------------------------------------------------------- history variables
\* (History is the last conjunct of every action: it records the step just taken)
Calls(p)   == pc[p] = "idle" /\ pc'[p] # "idle"
Returns(p) == pc[p] # "idle" /\ pc'[p] = "idle"
Succeeds(p, method) == Returns(p) /\ op[p] = method /\ outcome'[p].kind = "ok"
Mutates(p) == Succeeds(p, "addLike") \/ Succeeds(p, "deleteLike")

\* the awaits at which a playlist mutation writes the store
MutationSteps ==
  { "deletePlaylistById:delete", "addPlaylistSong:insert", "deletePlaylistSong:delete" }

\* task p takes the step of verifyPlaylistOwner
AtGate(p) == pc[p] = "verifyPlaylistOwner" /\ pc'[p] # pc[p]

History ==
  /\ hist' = [u \in Users, a \in Albums |->
       IF \E p \in Procs : Succeeds(p, "addLike") /\ userId[p] = u /\ albumId[p] = a
         THEN "added"
       ELSE IF \E p \in Procs : Succeeds(p, "deleteLike") /\ userId[p] = u /\ albumId[p] = a
         THEN "removed"
       ELSE hist[u, a]]
  /\ fresh' = [a \in Albums |->
       IF \E p \in Procs : Calls(p) /\ op'[p] = "countLikes" /\ albumId'[p] = a
         THEN "no"
       ELSE IF \E p \in Procs : Mutates(p) /\ albumId[p] = a
         THEN "mutated"
       ELSE IF pc' = pc /\ cache[CacheKey(a)] # Absent /\ cache'[CacheKey(a)] = Absent
                 /\ fresh[a] = "no"
         THEN "expired"
       ELSE fresh[a]]
  /\ first' = [p \in Procs |->
       IF Calls(p) /\ op'[p] = "countLikes" THEN fresh[albumId'[p]] ELSE first[p]]
  /\ overlap' = [p \in Procs |->
       IF Calls(p) THEN InFlight
       ELSE IF pc[p] # "idle" THEN overlap[p] \cup { q \in Procs : Calls(q) }
       ELSE overlap[p]]
  /\ likedAtCall' = [p \in Procs |->
       IF Calls(p) THEN RowsOf(likes, userId'[p], albumId'[p]) # {} ELSE likedAtCall[p]]
  /\ calls' = IF \E p \in Procs : Calls(p) THEN calls + 1 ELSE calls
  /\ gate' = [p \in Procs |->
       IF Calls(p) THEN "none"
       ELSE IF AtGate(p) THEN (IF Returns(p) THEN outcome'[p].kind ELSE "ok")
       ELSE gate[p]]
  /\ passed' = passed \cup
       { << playlistId[p], userId[p] >> : p \in { q \in Procs : AtGate(q) /\ ~Returns(q) } }
  /\ deleted' = deleted \cup ({ r.id : r \in playlists } \ { r.id : r \in playlists' })
  /\ staleGate' = [p \in Procs |->
       IF Calls(p) THEN FALSE
       ELSE IF /\ gate[p] = "ok" /\ pc[p] \in MutationSteps /\ pc'[p] # pc[p]
               /\ playlistId[p] \notin { r.id : r \in playlists }
         THEN TRUE
       ELSE staleGate[p]]
  /\ likedAgain' = [p \in Procs |->
       IF Calls(p) THEN FALSE
       ELSE IF pc[p] # "idle" /\ RowsOf(likes', userId[p], albumId[p]) \ likes # {}
         THEN TRUE
       ELSE likedAgain[p]]
  /\ issued' = [p \in Procs |->
       IF Calls(p) THEN {}
       ELSE IF pc'[p] # pc[p] THEN issued[p] \cup {pc[p]}
       ELSE issued[p]]
  /\ ownedAtCall' = [p \in Procs |->
       IF Calls(p)
         THEN \E r \in playlists : r.id = playlistId'[p] /\ r.owner = userId'[p]
       ELSE ownedAtCall[p]]
  /\ appended' = [pl \in 0..MaxPlaylists |->
       IF \E p \in Procs : Succeeds(p, "addActivity") /\ playlistId[p] = pl
         THEN LET p == CHOOSE q \in Procs : Succeeds(q, "addActivity") /\ playlistId[q] = pl
              IN  Append(appended[pl], [user_id |-> userId[p], song_id |-> songId[p],
                                        action |-> action[p], time |-> time[p]])
       ELSE appended[pl]]
  /\ lastListed' = [pl \in 0..MaxPlaylists |->
       IF \E p \in Procs : Succeeds(p, "getActivities") /\ playlistId[p] = pl
         THEN listed'[CHOOSE q \in Procs : Succeeds(q, "getActivities") /\ playlistId[q] = pl]
       ELSE lastListed[pl]]
  /\ coldClean' = [p \in Procs |->
       IF Calls(p)
         THEN /\ op'[p] = "countLikes"
              /\ cache[CacheKey(albumId'[p])] = Absent
              /\ \A q \in InFlight : albumId[q] = albumId'[p] =>
                    (op[q] = "countLikes" /\ coldClean[q])
       ELSE IF /\ pc[p] # "idle"
               /\ \E q \in Procs : /\ Calls(q) /\ albumId'[q] = albumId[p]
                                    /\ op'[q] \in {"addLike", "deleteLike"}
         THEN FALSE
       ELSE coldClean[p]]
  /\ removedSongs' =
       IF songCall'.method = "deleteSongById" /\ songCall'.outcome = "ok"
         THEN removedSongs \cup {songCall'.id}
       ELSE removedSongs
  /\ lastCount' = [a \in Albums |->
       IF \E p \in Procs : Calls(p) /\ op'[p] \in {"addLike", "deleteLike"}
                              /\ albumId'[p] = a
         THEN -1
       ELSE IF \E p \in Procs : Succeeds(p, "countLikes") /\ albumId[p] = a
         THEN outcome'[CHOOSE p \in Procs : Succeeds(p, "countLikes") /\ albumId[p] = a].value
       ELSE lastCount[a]]

\* ------------------------------------------------------ calls (a request arrives)
Enter(p, method, at, u, a) ==
  /\ pc[p] = "idle"
  /\ pc' = [pc EXCEPT ![p] = at]
  /\ op' = [op EXCEPT ![p] = method]
  /\ userId' = [userId EXCEPT ![p] = u]
  /\ albumId' = [albumId EXCEPT ![p] = a]
  /\ outcome' = [outcome EXCEPT ![p] = NoOutcome]
  /\ UNCHANGED << likes, cache, connected, result, count, error >>
  /\ UNCHANGED playlistVars
  /\ UNCHANGED activityVars
  /\ UNCHANGED albumVars
  /\ UNCHANGED songVars
  /\ History

Call_addLike(p, u, a)    == Enter(p, "addLike", "addLike:check", u, a)
Call_deleteLike(p, u, a) == Enter(p, "deleteLike", "deleteLike:delete", u, a)
\* countLikes takes no user; the field keeps its initial value
Call_countLikes(p, a)    == Enter(p, "countLikes", "countLikes:get", "u1", a)

\* the task goes on to its next await; res, cnt, err are its locals there
Goto(p, at, res, cnt, err) ==
  /\ pc' = [pc EXCEPT ![p] = at]
  /\ result' = [result EXCEPT ![p] = res]
  /\ count' = [count EXCEPT ![p] = cnt]
  /\ error' = [error EXCEPT ![p] = err]
  /\ UNCHANGED outcome

\* the task's call settles: the promise resolves or rejects with o and the
\* frame with its locals is gone
Return(p, o) ==
  /\ pc' = [pc EXCEPT ![p] = "idle"]
  /\ outcome' = [outcome EXCEPT ![p] = o]
  /\ result' = [result EXCEPT ![p] = NoIds]
  /\ count' = [count EXCEPT ![p] = 0]
  /\ error' = [error EXCEPT ![p] = "none"]

\* ------------------------------------------------------------------ addLike
\* mutant: the cache entry is dropped before the pre-check throws
addLike_check_invalidates(p) ==
  /\ pc[p] = "addLike:check"
  /\ IF SelectLike(likes, userId[p], albumId[p]) # 0
       THEN /\ cache' = CacheDelete(cache, CacheKey(albumId[p]))
            /\ Return(p, Throw("ConflictError"))
       ELSE /\ Goto(p, "addLike:insert", NoIds, 0, "none")
            /\ UNCHANGED cache
  /\ UNCHANGED << likes, connected, op, userId, albumId >>
  /\ UNCHANGED playlistVars
  /\ UNCHANGED activityVars
  /\ UNCHANGED albumVars
  /\ UNCHANGED songVars
  /\ History

\* mutant: the existence pre-check is left out
addLike_check_skipped(p) ==
  /\ pc[p] = "addLike:check"
  /\ Goto(p, "addLike:insert", NoIds, 0, "none")
  /\ UNCHANGED << likes, cache, connected, op, userId, albumId >>
  /\ UNCHANGED playlistVars
  /\ UNCHANGED activityVars
  /\ UNCHANGED albumVars
  /\ UNCHANGED songVars
  /\ History

\* lines 13-21: SELECT the pair; throw InvariantError if a row exists
addLike_check(p) ==
  /\ pc[p] = "addLike:check"
  /\ IF SelectLike(likes, userId[p], albumId[p]) # 0
       THEN Return(p, Throw("ConflictError"))
       ELSE Goto(p, "addLike:insert", NoIds, 0, "none")
  /\ UNCHANGED << likes, cache, connected, op, userId, albumId >>
  /\ UNCHANGED playlistVars
  /\ UNCHANGED activityVars
  /\ UNCHANGED albumVars
  /\ UNCHANGED songVars
  /\ History

\* mutant: the id is returned right after the INSERT, the cache is not touched
addLike_insert_returns(p) ==
  /\ pc[p] = "addLike:insert"
  /\ IF UniqueViolation(likes, userId[p], albumId[p])
       THEN /\ Return(p, Throw("StoreFailure"))
            /\ UNCHANGED likes
       ELSE /\ FreshIds(likes) # {}
            /\ likes' = InsertLike(likes, nanoid(likes), userId[p], albumId[p])
            /\ Return(p, Ok(nanoid(likes), FALSE))
  /\ UNCHANGED << cache, connected, op, userId, albumId >>
  /\ UNCHANGED playlistVars
  /\ UNCHANGED activityVars
  /\ UNCHANGED albumVars
  /\ UNCHANGED songVars
  /\ History

\* lines 23-33: INSERT ... RETURNING id; a rejected query propagates
addLike_insert(p) ==
  /\ pc[p] = "addLike:insert"
  /\ IF UniqueViolation(likes, userId[p], albumId[p])
       THEN /\ Return(p, Throw("StoreFailure"))
            /\ UNCHANGED likes
       ELSE /\ FreshIds(likes) # {}
            /\ likes' = InsertLike(likes, nanoid(likes), userId[p], albumId[p])
            /\ IF nanoid(likes) = 0   \* !result.rows[0].id
                 THEN Return(p, Throw("ConflictError"))
                 ELSE Goto(p, "addLike:invalidate", { nanoid(likes) }, 0, "none")
  /\ UNCHANGED << cache, connected, op, userId, albumId >>
  /\ UNCHANGED playlistVars
  /\ UNCHANGED activityVars
  /\ UNCHANGED albumVars
  /\ UNCHANGED songVars
  /\ History

\* mutant: the new count is written to the cache instead of deleting the entry
addLike_invalidate_updates(p) ==
  /\ pc[p] = "addLike:invalidate"
  /\ IF connected
       THEN /\ cache' = CacheSet(cache, CacheKey(albumId[p]),
                                 JSONStringify(parseInt(CountLikesQuery(likes, albumId[p]))))
            /\ Return(p, Ok(CHOOSE i \in result[p] : TRUE, FALSE))
       ELSE /\ Return(p, Throw("CacheTransportFailure"))
            /\ UNCHANGED cache
  /\ UNCHANGED << likes, connected, op, userId, albumId >>
  /\ UNCHANGED playlistVars
  /\ UNCHANGED activityVars
  /\ UNCHANGED albumVars
  /\ UNCHANGED songVars
  /\ History

\* lines 35-37: await cache delete, then return the id
addLike_invalidate(p) ==
  /\ pc[p] = "addLike:invalidate"
  /\ IF connected
       THEN /\ cache' = CacheDelete(cache, CacheKey(albumId[p]))
            /\ Return(p, Ok(CHOOSE i \in result[p] : TRUE, FALSE))
       ELSE /\ Return(p, Throw("CacheTransportFailure"))
            /\ UNCHANGED cache
  /\ UNCHANGED << likes, connected, op, userId, albumId >>
  /\ UNCHANGED playlistVars
  /\ UNCHANGED activityVars
  /\ UNCHANGED albumVars
  /\ UNCHANGED songVars
  /\ History

\* --------------------------------------------------------------- deleteLike
\* mutant: the row is looked up first and success is decided by the lookup
deleteLike_delete_lookup(p) ==
  /\ pc[p] = "deleteLike:delete"
  /\ likes' = DeleteLike(likes, userId[p], albumId[p])
  /\ IF ~likedAtCall[p]
       THEN Return(p, Throw("NotFoundError"))
       ELSE Goto(p, "deleteLike:invalidate", NoIds, 0, "none")
  /\ UNCHANGED << cache, connected, op, userId, albumId >>
  /\ UNCHANGED playlistVars
  /\ UNCHANGED activityVars
  /\ UNCHANGED albumVars
  /\ UNCHANGED songVars
  /\ History

\* mutant: the empty result of the DELETE is not checked
deleteLike_delete_unchecked(p) ==
  /\ pc[p] = "deleteLike:delete"
  /\ likes' = DeleteLike(likes, userId[p], albumId[p])
  /\ Goto(p, "deleteLike:invalidate",
          { r.id : r \in RowsOf(likes, userId[p], albumId[p]) }, 0, "none")
  /\ UNCHANGED << cache, connected, op, userId, albumId >>
  /\ UNCHANGED playlistVars
  /\ UNCHANGED activityVars
  /\ UNCHANGED albumVars
  /\ UNCHANGED songVars
  /\ History

\* lines 41-49: DELETE ... RETURNING id; NotFoundError if no row came back
deleteLike_delete(p) ==
  /\ pc[p] = "deleteLike:delete"
  /\ likes' = DeleteLike(likes, userId[p], albumId[p])
  /\ IF RowsOf(likes, userId[p], albumId[p]) = {}
       THEN Return(p, Throw("NotFoundError"))
       ELSE Goto(p, "deleteLike:invalidate",
                 { r.id : r \in RowsOf(likes, userId[p], albumId[p]) }, 0, "none")
  /\ UNCHANGED << cache, connected, op, userId, albumId >>
  /\ UNCHANGED playlistVars
  /\ UNCHANGED activityVars
  /\ UNCHANGED albumVars
  /\ UNCHANGED songVars
  /\ History

\* mutant: the invalidation drops the entries of all albums
deleteLike_invalidate_flushes(p) ==
  /\ pc[p] = "deleteLike:invalidate"
  /\ IF connected
       THEN /\ cache' = [k \in Keys |-> Absent]
            /\ Return(p, Ok(0, FALSE))
       ELSE /\ Return(p, Throw("CacheTransportFailure"))
            /\ UNCHANGED cache
  /\ UNCHANGED << likes, connected, op, userId, albumId >>
  /\ UNCHANGED playlistVars
  /\ UNCHANGED activityVars
  /\ UNCHANGED albumVars
  /\ UNCHANGED songVars
  /\ History

\* line 51: await cache delete, then return
deleteLike_invalidate(p) ==
  /\ pc[p] = "deleteLike:invalidate"
  /\ IF connected
       THEN /\ cache' = CacheDelete(cache, CacheKey(albumId[p]))
            /\ Return(p, Ok(0, FALSE))
       ELSE /\ Return(p, Throw("CacheTransportFailure"))
            /\ UNCHANGED cache
  /\ UNCHANGED << likes, connected, op, userId, albumId >>
  /\ UNCHANGED playlistVars
  /\ UNCHANGED activityVars
  /\ UNCHANGED albumVars
  /\ UNCHANGED songVars
  /\ History

\* --------------------------------------------------------------- countLikes
\* CacheService.get: rejects when the client fails, throws 'Cache not found'
\* when the reply is null, else returns the stored string
CacheGet(c, up, key) ==
  IF ~up THEN [threw |-> "transport", value |-> << >>]
  ELSE IF c[key] = Absent THEN [threw |-> "Cache not found", value |-> << >>]
  ELSE [threw |-> "none", value |-> c[key].value]

\* mutant: reading the entry also removes it
countLikes_get_consumes(p) ==
  /\ pc[p] = "countLikes:get"
  /\ LET r == CacheGet(cache, connected, CacheKey(albumId[p])) IN
       IF r.threw = "none"
         THEN /\ cache' = CacheDelete(cache, CacheKey(albumId[p]))
              /\ Return(p, Ok(JSONParse(r.value), TRUE))
         ELSE /\ Goto(p, "countLikes:query", NoIds, 0, r.threw)
              /\ UNCHANGED cache
  /\ UNCHANGED << likes, connected, op, userId, albumId >>
  /\ UNCHANGED playlistVars
  /\ UNCHANGED activityVars
  /\ UNCHANGED albumVars
  /\ UNCHANGED songVars
  /\ History

\* lines 55-61: try { get; return parsed, fromCache: true } catch (error) {
countLikes_get(p) ==
  /\ pc[p] = "countLikes:get"
  /\ LET r == CacheGet(cache, connected, CacheKey(albumId[p])) IN
       IF r.threw = "none"
         THEN Return(p, Ok(JSONParse(r.value), TRUE))
         ELSE Goto(p, "countLikes:query", NoIds, 0, r.threw)
  /\ UNCHANGED << likes, cache, connected, op, userId, albumId >>
  /\ UNCHANGED playlistVars
  /\ UNCHANGED activityVars
  /\ UNCHANGED albumVars
  /\ UNCHANGED songVars
  /\ History

\* mutant: after a miss the store is not asked, the count starts from zero
countLikes_query_zero(p) ==
  /\ pc[p] = "countLikes:query"
  /\ Goto(p, "countLikes:set", NoIds, 0, error[p])
  /\ UNCHANGED << likes, cache, connected, op, userId, albumId >>
  /\ UNCHANGED playlistVars
  /\ UNCHANGED activityVars
  /\ UNCHANGED albumVars
  /\ UNCHANGED songVars
  /\ History

\* lines 62-68: COUNT(*) in the store, parseInt
countLikes_query(p) ==
  /\ pc[p] = "countLikes:query"
  /\ Goto(p, "countLikes:set", NoIds,
          parseInt(CountLikesQuery(likes, albumId[p])), error[p])
  /\ UNCHANGED << likes, cache, connected, op, userId, albumId >>
  /\ UNCHANGED playlistVars
  /\ UNCHANGED activityVars
  /\ UNCHANGED albumVars
  /\ UNCHANGED songVars
  /\ History

\* mutant: a set that fails is issued again until it goes through
countLikes_set_retries(p) ==
  /\ pc[p] = "countLikes:set"
  /\ IF connected
       THEN /\ cache' = CacheSet(cache, CacheKey(albumId[p]), JSONStringify(count[p]))
            /\ Return(p, Ok(count[p], FALSE))
       ELSE /\ UNCHANGED << cache, pc, outcome, result, count, error >>
  /\ UNCHANGED << likes, connected, op, userId, albumId >>
  /\ UNCHANGED playlistVars
  /\ UNCHANGED activityVars
  /\ UNCHANGED albumVars
  /\ UNCHANGED songVars
  /\ History

\* mutant: the computed count is returned without being written to the cache
countLikes_set_skipped(p) ==
  /\ pc[p] = "countLikes:set"
  /\ Return(p, Ok(count[p], FALSE))
  /\ UNCHANGED << likes, cache, connected, op, userId, albumId >>
  /\ UNCHANGED playlistVars
  /\ UNCHANGED activityVars
  /\ UNCHANGED albumVars
  /\ UNCHANGED songVars
  /\ History

\* lines 70-74: await cache set of the stringified count, return fromCache: false
countLikes_set(p) ==
  /\ pc[p] = "countLikes:set"
  /\ IF connected
       THEN /\ cache' = CacheSet(cache, CacheKey(albumId[p]), JSONStringify(count[p]))
            /\ Return(p, Ok(count[p], FALSE))
       ELSE /\ Return(p, Throw("CacheTransportFailure"))
            /\ UNCHANGED cache
  /\ UNCHANGED << likes, connected, op, userId, albumId >>
  /\ UNCHANGED playlistVars
  /\ UNCHANGED activityVars
  /\ UNCHANGED albumVars
  /\ UNCHANGED songVars
  /\ History

\* ---------------------------------------------------------- the environment
\* Redis drops an entry whose EX has run out
Expire(a) ==
  /\ cache[CacheKey(a)] # Absent
  /\ cache[CacheKey(a)].EX > 0
  /\ cache' = CacheDelete(cache, CacheKey(a))
  /\ UNCHANGED << likes, connected, pc, op, userId, albumId, result, count, error, outcome >>
  /\ UNCHANGED playlistVars
  /\ UNCHANGED activityVars
  /\ UNCHANGED albumVars
  /\ UNCHANGED songVars
  /\ History

\* the connection to Redis is lost / comes back
Disconnect ==
  /\ connected
  /\ connected' = FALSE
  /\ UNCHANGED << likes, cache, pc, op, userId, albumId, result, count, error, outcome >>
  /\ UNCHANGED playlistVars
  /\ UNCHANGED activityVars
  /\ UNCHANGED albumVars
  /\ UNCHANGED songVars
  /\ History

Reconnect ==
  /\ ~connected
  /\ connected' = TRUE
  /\ UNCHANGED << likes, cache, pc, op, userId, albumId, result, count, error, outcome >>
  /\ UNCHANGED playlistVars
  /\ UNCHANGED activityVars
  /\ UNCHANGED albumVars
  /\ UNCHANGED songVars
  /\ History

\* ------------------------------------------------------ the playlist store
PlaylistRows(rows, id) == { r \in rows : r.id = id }

\* playlist_songs rows of a (playlist, song) pair / of a playlist
MembershipRows(rows, pl, s) == { r \in rows : r.playlist_id = pl /\ r.song_id = s }
RowsOfPlaylist(rows, pl)    == { r \in rows : r.playlist_id = pl }

\* ids of playlist_songs rows: at most one row per (playlist, song) is live
MembershipIds == 1..(MaxPlaylists * Cardinality(Songs))

\* `playlist-song-${nanoid(16)}`: an id no live row has
nanoidPlaylistSong(rows) ==
  CHOOSE i \in MembershipIds \ { r.id : r \in rows } :
    \A j \in MembershipIds \ { r.id : r \in rows } : i <= j

\* constraints of table playlist_songs: UNIQUE(playlist_id, song_id) and the
\* foreign keys to playlists(id) and songs(id)
MembershipViolation(pls, rows, pl, s) ==
  \/ MembershipRows(rows, pl, s) # {}
  \/ PlaylistRows(pls, pl) = {}
  \/ s \notin Songs

\* playlist_song_activities: FOREIGN KEY(playlist_id) REFERENCES playlists(id)
\* ON DELETE CASCADE
CascadeActivities(rows, id) == { r \in rows : r.playlist_id # id }

\* DELETE FROM playlists WHERE id = $1, with ON DELETE CASCADE on playlist_songs
DeletePlaylist(pls, id) == pls \ PlaylistRows(pls, id)
CascadePlaylist(rows, id) == rows \ RowsOfPlaylist(rows, id)

\* mutant: a missing playlist passes the gate
VerifyPlaylistOwner_lenient(pls, id, u) ==
  IF PlaylistRows(pls, id) = {} THEN "ok"
  ELSE IF (CHOOSE r \in PlaylistRows(pls, id) : TRUE).owner # u THEN "AuthorizationError"
  ELSE "ok"

\* lines 305-321: SELECT owner FROM playlists WHERE id = $1; NotFoundError when
\* no row, AuthorizationError when playlist.owner !== userId
VerifyPlaylistOwner(pls, id, u) ==
  IF PlaylistRows(pls, id) = {} THEN "NotFoundError"
  ELSE IF (CHOOSE r \in PlaylistRows(pls, id) : TRUE).owner # u THEN "AuthorizationError"
  ELSE "ok"

\* --------------------------------------------- playlist calls (a request arrives)
EnterPlaylist(p, method, at, u, pl, s) ==
  /\ pc[p] = "idle"
  /\ pc' = [pc EXCEPT ![p] = at]
  /\ op' = [op EXCEPT ![p] = method]
  /\ userId' = [userId EXCEPT ![p] = u]
  /\ playlistId' = [playlistId EXCEPT ![p] = pl]
  /\ songId' = [songId EXCEPT ![p] = s]
  /\ outcome' = [outcome EXCEPT ![p] = NoOutcome]
  /\ UNCHANGED << result, count, error, playlists, playlistSongs, created >>
  /\ UNCHANGED likesVars
  /\ UNCHANGED activityVars
  /\ UNCHANGED albumVars
  /\ UNCHANGED songVars
  /\ History

\* handler.js line 18; an id is still left for the playlist
Call_addPlaylist(p, u) ==
  /\ created + Cardinality({ q \in Procs : pc[q] = "addPlaylist:insert" }) < MaxPlaylists
  /\ EnterPlaylist(p, "addPlaylist", "addPlaylist:insert", u, playlistId[p], songId[p])

\* handler.js lines 48, 62, 84, 100: each of these methods awaits
\* verifyPlaylistOwner first
Call_deletePlaylistById(p, pl, u) ==
  EnterPlaylist(p, "deletePlaylistById", "verifyPlaylistOwner", u, pl, songId[p])
Call_addPlaylistSong(p, pl, s, u) ==
  EnterPlaylist(p, "addPlaylistSong", "verifyPlaylistOwner", u, pl, s)
\* mutant: the read starts at its playlist query, verifyPlaylistOwner is not
\* awaited
Call_getPlaylistSongsById_ungated(p, pl, u) ==
  EnterPlaylist(p, "getPlaylistSongsById", "getPlaylistSongsById:playlist", u, pl, songId[p])
Call_getPlaylistSongsById(p, pl, u) ==
  EnterPlaylist(p, "getPlaylistSongsById", "verifyPlaylistOwner", u, pl, songId[p])
Call_deletePlaylistSong(p, pl, s, u) ==
  EnterPlaylist(p, "deletePlaylistSong", "verifyPlaylistOwner", u, pl, s)

\* ------------------------------------------------- PlaylistsService, await by await
\* lines 157-173: INSERT INTO playlists VALUES(id, name, owner) RETURNING id
addPlaylist_insert(p) ==
  /\ pc[p] = "addPlaylist:insert"
  /\ created' = created + 1
  /\ playlists' = playlists \cup { [id |-> created + 1, owner |-> userId[p]] }
  /\ Return(p, Ok(created + 1, FALSE))
  /\ UNCHANGED << op, userId, playlistSongs, playlistId, songId >>
  /\ UNCHANGED likesVars
  /\ UNCHANGED activityVars
  /\ UNCHANGED albumVars
  /\ UNCHANGED songVars
  /\ History

\* the await that follows the gate in each method (lines 196, 210, 246, 289)
AfterGate(method) ==
  CASE method = "deletePlaylistById"   -> "deletePlaylistById:delete"
    [] method = "addPlaylistSong"      -> "addPlaylistSong:playlistCheck"
    [] method = "getPlaylistSongsById" -> "getPlaylistSongsById:playlist"
    [] method = "deletePlaylistSong"   -> "deletePlaylistSong:delete"

\* mutant: deletePlaylistSong's gate and its DELETE are one store step
verifyPlaylistOwner_fused(p) ==
  /\ pc[p] = "verifyPlaylistOwner"
  /\ LET v == VerifyPlaylistOwner(playlists, playlistId[p], userId[p]) IN
       IF v # "ok" THEN Return(p, Throw(v)) /\ UNCHANGED playlistSongs
       ELSE IF op[p] = "deletePlaylistSong"
         THEN /\ playlistSongs' = playlistSongs \
                    MembershipRows(playlistSongs, playlistId[p], songId[p])
              /\ Return(p, IF MembershipRows(playlistSongs, playlistId[p], songId[p]) = {}
                             THEN Throw("NotFoundError") ELSE Ok(0, FALSE))
       ELSE Goto(p, AfterGate(op[p]), NoIds, 0, "none") /\ UNCHANGED playlistSongs
  /\ UNCHANGED << op, userId, playlists, created, playlistId, songId >>
  /\ UNCHANGED likesVars
  /\ UNCHANGED activityVars
  /\ UNCHANGED albumVars
  /\ UNCHANGED songVars
  /\ History

\* mutant: a pair that passed the gate once passes it again without a query
verifyPlaylistOwner_remembers(p) ==
  /\ pc[p] = "verifyPlaylistOwner"
  /\ LET v == IF << playlistId[p], userId[p] >> \in passed THEN "ok"
              ELSE VerifyPlaylistOwner(playlists, playlistId[p], userId[p]) IN
       IF v = "ok" THEN Goto(p, AfterGate(op[p]), NoIds, 0, "none")
       ELSE Return(p, Throw(v))
  /\ UNCHANGED << op, userId, playlists, playlistSongs, created, playlistId, songId >>
  /\ UNCHANGED likesVars
  /\ UNCHANGED activityVars
  /\ UNCHANGED albumVars
  /\ UNCHANGED songVars
  /\ History

\* mutant: the owner comparison is left out
verifyPlaylistOwner_anyone(p) ==
  /\ pc[p] = "verifyPlaylistOwner"
  /\ IF PlaylistRows(playlists, playlistId[p]) # {}
       THEN Goto(p, AfterGate(op[p]), NoIds, 0, "none")
       ELSE Return(p, Throw("NotFoundError"))
  /\ UNCHANGED << op, userId, playlists, playlistSongs, created, playlistId, songId >>
  /\ UNCHANGED likesVars
  /\ UNCHANGED activityVars
  /\ UNCHANGED albumVars
  /\ UNCHANGED songVars
  /\ History

\* lines 195, 209, 245, 287 -> 305-321: await this.verifyPlaylistOwner(...)
verifyPlaylistOwner(p) ==
  /\ pc[p] = "verifyPlaylistOwner"
  /\ LET v == VerifyPlaylistOwner(playlists, playlistId[p], userId[p]) IN
       IF v = "ok" THEN Goto(p, AfterGate(op[p]), NoIds, 0, "none")
       ELSE Return(p, Throw(v))
  /\ UNCHANGED << op, userId, playlists, playlistSongs, created, playlistId, songId >>
  /\ UNCHANGED likesVars
  /\ UNCHANGED activityVars
  /\ UNCHANGED albumVars
  /\ UNCHANGED songVars
  /\ History

\* mutant: the empty result of the DELETE is not checked
deletePlaylistById_delete_unchecked(p) ==
  /\ pc[p] = "deletePlaylistById:delete"
  /\ playlists' = DeletePlaylist(playlists, playlistId[p])
  /\ playlistSongs' = CascadePlaylist(playlistSongs, playlistId[p])
  /\ activities' = CascadeActivities(activities, playlistId[p])
  /\ Return(p, Ok(0, FALSE))
  /\ UNCHANGED << op, userId, created, playlistId, songId >>
  /\ UNCHANGED likesVars
  /\ UNCHANGED << logged, now, action, time, listed >>
  /\ UNCHANGED albumVars
  /\ UNCHANGED songVars
  /\ History

\* lines 196-205: DELETE FROM playlists ... RETURNING id; NotFoundError if no row
deletePlaylistById_delete(p) ==
  /\ pc[p] = "deletePlaylistById:delete"
  /\ playlists' = DeletePlaylist(playlists, playlistId[p])
  /\ playlistSongs' = IF PlaylistRows(playlists, playlistId[p]) = {} THEN playlistSongs
                      ELSE CascadePlaylist(playlistSongs, playlistId[p])
  /\ IF PlaylistRows(playlists, playlistId[p]) = {}
       THEN Return(p, Throw("NotFoundError"))
       ELSE Return(p, Ok(0, FALSE))
  /\ activities' = CascadeActivities(activities, playlistId[p])
  /\ UNCHANGED << op, userId, created, playlistId, songId >>
  /\ UNCHANGED likesVars
  /\ UNCHANGED << logged, now, action, time, listed >>
  /\ UNCHANGED albumVars
  /\ UNCHANGED songVars
  /\ History

\* lines 210-217: SELECT id FROM playlists; NotFoundError if no row
addPlaylistSong_playlistCheck(p) ==
  /\ pc[p] = "addPlaylistSong:playlistCheck"
  /\ IF PlaylistRows(playlists, playlistId[p]) = {}
       THEN Return(p, Throw("NotFoundError"))
       ELSE Goto(p, "addPlaylistSong:songCheck", NoIds, 0, "none")
  /\ UNCHANGED << op, userId, playlists, playlistSongs, created, playlistId, songId >>
  /\ UNCHANGED likesVars
  /\ UNCHANGED activityVars
  /\ UNCHANGED albumVars
  /\ UNCHANGED songVars
  /\ History

\* mutant: the song is not looked up
addPlaylistSong_songCheck_skipped(p) ==
  /\ pc[p] = "addPlaylistSong:songCheck"
  /\ Goto(p, "addPlaylistSong:insert", NoIds, 0, "none")
  /\ UNCHANGED << op, userId, playlists, playlistSongs, created, playlistId, songId >>
  /\ UNCHANGED likesVars
  /\ UNCHANGED activityVars
  /\ UNCHANGED albumVars
  /\ UNCHANGED songVars
  /\ History

\* lines 219-226: SELECT id FROM songs; NotFoundError if no row
addPlaylistSong_songCheck(p) ==
  /\ pc[p] = "addPlaylistSong:songCheck"
  /\ IF songId[p] \notin Songs
       THEN Return(p, Throw("NotFoundError"))
       ELSE Goto(p, "addPlaylistSong:insert", NoIds, 0, "none")
  /\ UNCHANGED << op, userId, playlists, playlistSongs, created, playlistId, songId >>
  /\ UNCHANGED likesVars
  /\ UNCHANGED activityVars
  /\ UNCHANGED albumVars
  /\ UNCHANGED songVars
  /\ History

\* lines 228-241: INSERT INTO playlist_songs ... RETURNING id, no try/catch: a
\* violated constraint rejects the call with the store's error
addPlaylistSong_insert(p) ==
  /\ pc[p] = "addPlaylistSong:insert"
  /\ IF MembershipViolation(playlists, playlistSongs, playlistId[p], songId[p])
       THEN /\ Return(p, Throw("StoreFailure"))
            /\ UNCHANGED playlistSongs
       ELSE /\ playlistSongs' = playlistSongs \cup
                  { [id |-> nanoidPlaylistSong(playlistSongs),
                     playlist_id |-> playlistId[p], song_id |-> songId[p]] }
            /\ Return(p, Ok(nanoidPlaylistSong(playlistSongs), FALSE))
  /\ UNCHANGED << op, userId, playlists, created, playlistId, songId >>
  /\ UNCHANGED likesVars
  /\ UNCHANGED activityVars
  /\ UNCHANGED albumVars
  /\ UNCHANGED songVars
  /\ History

\* lines 246-262: SELECT ... FROM playlists p JOIN users u; NotFoundError if no row
getPlaylistSongsById_playlist(p) ==
  /\ pc[p] = "getPlaylistSongsById:playlist"
  /\ IF PlaylistRows(playlists, playlistId[p]) = {}
       THEN Return(p, Throw("NotFoundError"))
       ELSE Goto(p, "getPlaylistSongsById:songs", NoIds, 0, "none")
  /\ UNCHANGED << op, userId, playlists, playlistSongs, created, playlistId, songId >>
  /\ UNCHANGED likesVars
  /\ UNCHANGED activityVars
  /\ UNCHANGED albumVars
  /\ UNCHANGED songVars
  /\ History

\* lines 264-283: SELECT ... FROM playlist_songs ps JOIN songs s; the songs are
\* returned (here: how many)
getPlaylistSongsById_songs(p) ==
  /\ pc[p] = "getPlaylistSongsById:songs"
  /\ Return(p, Ok(Cardinality(RowsOfPlaylist(playlistSongs, playlistId[p])), FALSE))
  /\ UNCHANGED << op, userId, playlists, playlistSongs, created, playlistId, songId >>
  /\ UNCHANGED likesVars
  /\ UNCHANGED activityVars
  /\ UNCHANGED albumVars
  /\ UNCHANGED songVars
  /\ History

\* mutant: the empty result of the DELETE is not checked
deletePlaylistSong_delete_unchecked(p) ==
  /\ pc[p] = "deletePlaylistSong:delete"
  /\ playlistSongs' = playlistSongs \ MembershipRows(playlistSongs, playlistId[p], songId[p])
  /\ Return(p, Ok(0, FALSE))
  /\ UNCHANGED << op, userId, playlists, created, playlistId, songId >>
  /\ UNCHANGED likesVars
  /\ UNCHANGED activityVars
  /\ UNCHANGED albumVars
  /\ UNCHANGED songVars
  /\ History

\* lines 289-302: DELETE FROM playlist_songs ... RETURNING id; NotFoundError if no row
deletePlaylistSong_delete(p) ==
  /\ pc[p] = "deletePlaylistSong:delete"
  /\ playlistSongs' = playlistSongs \ MembershipRows(playlistSongs, playlistId[p], songId[p])
  /\ IF MembershipRows(playlistSongs, playlistId[p], songId[p]) = {}
       THEN Return(p, Throw("NotFoundError"))
       ELSE Return(p, Ok(0, FALSE))
  /\ UNCHANGED << op, userId, playlists, created, playlistId, songId >>
  /\ UNCHANGED likesVars
  /\ UNCHANGED activityVars
  /\ UNCHANGED albumVars
  /\ UNCHANGED songVars
  /\ History

\* ---------------------------------------------------------- the activity log
Actions == {"add", "delete"}

\* what getActivities selects of a row: users.username, songs.title, action, time
Selected(r) ==
  [user_id |-> r.user_id, song_id |-> r.song_id, action |-> r.action, time |-> r.time]

\* rows of a playlist that survive JOIN users and JOIN songs
JoinedActivities(rows, pl) ==
  { r \in rows : r.playlist_id = pl /\ r.user_id \in Users /\ r.song_id \in Songs }

\* ORDER BY time ASC: any arrangement of the rows in which no row comes before
\* a row with a smaller time; rows with equal time come in either order
OrderByTime(rows) ==
  { q \in [1..Cardinality(rows) -> rows] :
      /\ \A r \in rows : \E i \in 1..Cardinality(rows) : q[i] = r
      /\ \A i, j \in 1..Cardinality(rows) : i < j => ~TextLess(q[j].time, q[i].time) }

EnterActivity(p, method, at, pl, s, u, a) ==
  /\ pc[p] = "idle"
  /\ pc' = [pc EXCEPT ![p] = at]
  /\ op' = [op EXCEPT ![p] = method]
  /\ userId' = [userId EXCEPT ![p] = u]
  /\ playlistId' = [playlistId EXCEPT ![p] = pl]
  /\ songId' = [songId EXCEPT ![p] = s]
  /\ action' = [action EXCEPT ![p] = a]
  /\ time' = [time EXCEPT ![p] = toISOString(now)]
  /\ outcome' = [outcome EXCEPT ![p] = NoOutcome]
  /\ UNCHANGED << result, count, error, playlists, playlistSongs, created >>
  /\ UNCHANGED << activities, logged, now, listed >>
  /\ UNCHANGED likesVars
  /\ UNCHANGED albumVars
  /\ UNCHANGED songVars
  /\ History

\* part_003 lines 1419-1421: addActivity takes its id and reads the clock
\* before its first await; an id is still left for the record
Call_addActivity(p, pl, s, u, a) ==
  /\ logged + Cardinality({ q \in Procs : pc[q] = "addActivity:insert" }) < MaxActivities
  /\ EnterActivity(p, "addActivity", "addActivity:insert", pl, s, u, a)

\* part_003 line 1431: getActivities(playlistId)
Call_getActivities(p, pl) ==
  /\ pc[p] = "idle"
  /\ pc' = [pc EXCEPT ![p] = "getActivities:select"]
  /\ op' = [op EXCEPT ![p] = "getActivities"]
  /\ playlistId' = [playlistId EXCEPT ![p] = pl]
  /\ outcome' = [outcome EXCEPT ![p] = NoOutcome]
  /\ UNCHANGED << result, count, error, userId, songId, playlists, playlistSongs, created >>
  /\ UNCHANGED activityVars
  /\ UNCHANGED likesVars
  /\ UNCHANGED albumVars
  /\ UNCHANGED songVars
  /\ History

\* part_003 lines 1423-1428: INSERT INTO playlist_song_activities, not caught:
\* the foreign key to playlists rejects a record of a missing playlist
addActivity_insert(p) ==
  /\ pc[p] = "addActivity:insert"
  /\ IF PlaylistRows(playlists, playlistId[p]) = {}
       THEN /\ Return(p, Throw("StoreFailure"))
            /\ UNCHANGED << activities, logged >>
       ELSE /\ activities' = activities \cup
                  { [id |-> logged + 1, playlist_id |-> playlistId[p], song_id |-> songId[p],
                     user_id |-> userId[p], action |-> action[p], time |-> time[p]] }
            /\ logged' = logged + 1
            /\ Return(p, Ok(0, FALSE))
  /\ UNCHANGED << op, userId, playlists, playlistSongs, created, playlistId, songId >>
  /\ UNCHANGED << now, action, time, listed >>
  /\ UNCHANGED likesVars
  /\ UNCHANGED albumVars
  /\ UNCHANGED songVars
  /\ History

\* part_003 lines 1432-1443: SELECT ... JOIN users JOIN songs WHERE playlist_id
\* = $1 ORDER BY time ASC; return result.rows
getActivities_select(p) ==
  /\ pc[p] = "getActivities:select"
  /\ \E q \in OrderByTime(JoinedActivities(activities, playlistId[p])) :
       /\ listed' = [listed EXCEPT ![p] = [i \in 1..Len(q) |-> Selected(q[i])]]
       /\ Return(p, Ok(Len(q), FALSE))
  /\ UNCHANGED << op, userId, playlists, playlistSongs, created, playlistId, songId >>
  /\ UNCHANGED << activities, logged, now, action, time >>
  /\ UNCHANGED likesVars
  /\ UNCHANGED albumVars
  /\ UNCHANGED songVars
  /\ History

\* a millisecond passes
Tick ==
  /\ now < MaxTime
  /\ now' = now + 1
  /\ UNCHANGED << pc, op, userId, result, count, error, outcome >>
  /\ UNCHANGED << activities, logged, action, time, listed >>
  /\ UNCHANGED playlistVars
  /\ UNCHANGED likesVars
  /\ UNCHANGED albumVars
  /\ UNCHANGED songVars
  /\ History

\* ------------------------------------------------------ albums (AlbumService)
\* part_003 lines 946-961: addAlbum inserts a row under an id not handed out
\* before
addAlbum(a) ==
  /\ a \in Albums \ albumIds
  /\ albums' = albums \cup {a}
  /\ albumIds' = albumIds \cup {a}
  /\ UNCHANGED << pc, op, userId, result, count, error, outcome, handler >>
  /\ UNCHANGED likesVars
  /\ UNCHANGED playlistVars
  /\ UNCHANGED activityVars
  /\ UNCHANGED songVars
  /\ History

\* part_003 lines 1010-1021: deleteAlbumById removes the row of an album (for an
\* id with no row it throws and changes nothing); src/ declares no constraint
\* between user_album_likes and albums, the like rows stay
deleteAlbumById(a) ==
  /\ a \in albums
  /\ albums' = albums \ {a}
  /\ UNCHANGED << pc, op, userId, result, count, error, outcome, handler, albumIds >>
  /\ UNCHANGED likesVars
  /\ UNCHANGED playlistVars
  /\ UNCHANGED activityVars
  /\ UNCHANGED songVars
  /\ History

\* --------------------------------------------- likes handlers (AlbumLikesHandler)
\* the likes-service method a handler calls, and the await that method stops at
\* first
ServiceMethod(h) ==
  CASE h = "postLikeHandler"   -> "addLike"
    [] h = "deleteLikeHandler" -> "deleteLike"
    [] h = "getLikesHandler"   -> "countLikes"

FirstAwait(method) ==
  CASE method = "addLike"    -> "addLike:check"
    [] method = "deleteLike" -> "deleteLike:delete"
    [] method = "countLikes" -> "countLikes:get"

\* a request reaches handler h: it reads its parameters and awaits getAlbumById
EnterHandler(p, h, u, a) ==
  /\ pc[p] = "idle"
  /\ pc' = [pc EXCEPT ![p] = "getAlbumById:album"]
  /\ op' = [op EXCEPT ![p] = ServiceMethod(h)]
  /\ handler' = [handler EXCEPT ![p] = h]
  /\ userId' = [userId EXCEPT ![p] = u]
  /\ albumId' = [albumId EXCEPT ![p] = a]
  /\ outcome' = [outcome EXCEPT ![p] = NoOutcome]
  /\ UNCHANGED << likes, cache, connected, result, count, error, albums, albumIds >>
  /\ UNCHANGED playlistVars
  /\ UNCHANGED activityVars
  /\ UNCHANGED songVars
  /\ History

\* handler.js lines 11-15, 28-32, 42-45
postLikeHandler(p, u, a)   == EnterHandler(p, "postLikeHandler", u, a)
deleteLikeHandler(p, u, a) == EnterHandler(p, "deleteLikeHandler", u, a)
\* getLikesHandler reads no credentials; the field keeps its initial value
getLikesHandler(p, a)      == EnterHandler(p, "getLikesHandler", "u1", a)

\* mutant: the album's absence is not looked at
getAlbumById_album_lenient(p) ==
  /\ pc[p] = "getAlbumById:album"
  /\ Goto(p, "getAlbumById:songs", NoIds, 0, "none")
  /\ UNCHANGED << likes, cache, connected, op, userId, albumId >>
  /\ UNCHANGED playlistVars
  /\ UNCHANGED activityVars
  /\ UNCHANGED albumVars
  /\ UNCHANGED songVars
  /\ History

\* part_003 lines 970-979: SELECT the album; NotFoundError if there is no row.
\* The handler does not catch it: the request fails with it
getAlbumById_album(p) ==
  /\ pc[p] = "getAlbumById:album"
  /\ IF albumId[p] \notin albums
       THEN Return(p, Throw("NotFoundError"))
       ELSE Goto(p, "getAlbumById:songs", NoIds, 0, "none")
  /\ UNCHANGED << likes, cache, connected, op, userId, albumId >>
  /\ UNCHANGED playlistVars
  /\ UNCHANGED activityVars
  /\ UNCHANGED albumVars
  /\ UNCHANGED songVars
  /\ History

\* part_003 lines 983-993: SELECT the album's songs and return; the handler drops
\* the value and calls the likes service (handler.js lines 17, 34, 47), which
\* runs to its first await
getAlbumById_songs(p) ==
  /\ pc[p] = "getAlbumById:songs"
  /\ Goto(p, FirstAwait(op[p]), NoIds, 0, "none")
  /\ UNCHANGED << likes, cache, connected, op, userId, albumId >>
  /\ UNCHANGED playlistVars
  /\ UNCHANGED activityVars
  /\ UNCHANGED albumVars
  /\ UNCHANGED songVars
  /\ History

\* ------------------------------------------- in-memory SongService (part_002)
\* the methods are synchronous: a call is one step
SongFrame ==
  /\ UNCHANGED << pc, op, userId, result, count, error, outcome >>
  /\ UNCHANGED likesVars
  /\ UNCHANGED playlistVars
  /\ UNCHANGED activityVars
  /\ UNCHANGED albumVars

\* this._songs.filter((song) => song.id === id)
FilterById(list, id) ==
  LET Test(song) == song.id = id IN SelectSeq(list, Test)

\* this._songs.findIndex((song) => song.id === id): the index, counted from 0, of
\* the first song with the id, or -1
FindIndex(list, id) ==
  IF \A i \in 1..Len(list) : list[i].id # id THEN -1
  ELSE (CHOOSE i \in 1..Len(list) :
          /\ list[i].id = id
          /\ \A j \in 1..(i - 1) : list[j].id # id) - 1

\* this._songs.splice(index, 1)
Splice(list, index) ==
  [i \in 1..(Len(list) - 1) |-> IF i <= index THEN list[i] ELSE list[i + 1]]

\* the ids a request may name: the ids handed out so far, and 0, the id of no
\* song
RequestedSongIds == 0..songsAdded

\* lines 10-32: a new id, push, check that the song is in the list, return the id
addSong(t) ==
  /\ songsAdded < MaxSongs
  /\ LET id == songsAdded + 1
         newSong == [id |-> id, title |-> t]
         pushed == Append(songs, newSong)
         isSuccess == Len(FilterById(pushed, id)) > 0
     IN  /\ songs' = pushed
         /\ songsAdded' = id
         /\ songCall' = [method |-> "addSong", id |-> id,
                         outcome |-> IF isSuccess THEN "ok" ELSE "InvariantError",
                         value |-> NoSong]
  /\ SongFrame
  /\ History

\* lines 38-44
getSongById(id) ==
  /\ LET found == FilterById(songs, id)
     IN  songCall' = IF found = << >>
                       THEN [method |-> "getSongById", id |-> id,
                             outcome |-> "NotFoundError", value |-> NoSong]
                       ELSE [method |-> "getSongById", id |-> id,
                             outcome |-> "ok", value |-> found[1]]
  /\ UNCHANGED << songs, songsAdded >>
  /\ SongFrame
  /\ History

\* mutant: the song is replaced by the payload alone, its id is not carried
\* over
editSongById_replaces(id, t) ==
  /\ LET index == FindIndex(songs, id)
     IN  IF index = -1
           THEN /\ songCall' = [method |-> "editSongById", id |-> id,
                                outcome |-> "NotFoundError", value |-> NoSong]
                /\ UNCHANGED songs
           ELSE /\ songs' = [songs EXCEPT ![index + 1] = [id |-> 0, title |-> t]]
                /\ songCall' = [method |-> "editSongById", id |-> id,
                                outcome |-> "ok", value |-> NoSong]
  /\ UNCHANGED songsAdded
  /\ SongFrame
  /\ History

\* lines 46-65: findIndex; NotFoundError if -1; the song at the index keeps its
\* fields and takes the payload
editSongById(id, t) ==
  /\ LET index == FindIndex(songs, id)
     IN  IF index = -1
           THEN /\ songCall' = [method |-> "editSongById", id |-> id,
                                outcome |-> "NotFoundError", value |-> NoSong]
                /\ UNCHANGED songs
           ELSE /\ songs' = [songs EXCEPT ![index + 1] =
                                [songs[index + 1] EXCEPT !.title = t]]
                /\ songCall' = [method |-> "editSongById", id |-> id,
                                outcome |-> "ok", value |-> NoSong]
  /\ UNCHANGED songsAdded
  /\ SongFrame
  /\ History

\* lines 67-75: findIndex; NotFoundError if -1; splice the song out
deleteSongById(id) ==
  /\ LET index == FindIndex(songs, id)
     IN  IF index = -1
           THEN /\ songCall' = [method |-> "deleteSongById", id |-> id,
                                outcome |-> "NotFoundError", value |-> NoSong]
                /\ UNCHANGED songs
           ELSE /\ songs' = Splice(songs, index)
                /\ songCall' = [method |-> "deleteSongById", id |-> id,
                                outcome |-> "ok", value |-> NoSong]
  /\ UNCHANGED songsAdded
  /\ SongFrame
  /\ History

\* ------------------------------------------------------------ specifications
Call(p, max) ==
  /\ calls < max
  /\ \/ \E u \in Users, a \in Albums : Call_addLike(p, u, a)
     \/ \E u \in Users, a \in Albums : Call_deleteLike(p, u, a)
     \/ \E a \in Albums : Call_countLikes(p, a)

Step(p) ==
  \/ addLike_check(p)
  \/ addLike_insert(p)
  \/ addLike_invalidate(p)
  \/ deleteLike_delete(p)
  \/ deleteLike_invalidate(p)
  \/ countLikes_get(p)
  \/ countLikes_query(p)
  \/ countLikes_set(p)

\* concurrent requests, Redis may expire entries and may be unreachable
Next ==
  \/ \E p \in Procs : Call(p, MaxCalls)
  \/ \E p \in Procs : Step(p)
  \/ \E a \in Albums : Expire(a)
  \/ Disconnect
  \/ Reconnect

Spec == Init /\ [][Next]_vars

\* concurrent requests, Redis reachable
NextRace ==
  \/ \E p \in Procs : Call(p, MaxRaceCalls)
  \/ \E p \in Procs : Step(p)
  \/ \E a \in Albums : Expire(a)

SpecRace == Init /\ [][NextRace]_vars

\* one request at a time, Redis reachable
NextSeq ==
  \/ \E p \in Procs : AllIdle /\ Call(p, MaxSeqCalls)
  \/ \E p \in Procs : Step(p)
  \/ \E a \in Albums : AllIdle /\ Expire(a)

SpecSeq == Init /\ [][NextSeq]_vars

\* concurrent requests, Redis reachable; an entry with an EX does expire
\* (Redis removes a key once its time to live has run out)
NextFair ==
  \/ \E p \in Procs : Call(p, MaxFairCalls)
  \/ \E p \in Procs : Step(p)
  \/ \E a \in Albums : Expire(a)

SpecFair == Init /\ [][NextFair]_vars /\ \A a \in Albums : WF_vars(Expire(a))

\* the playlist ids a request may name: the ids handed out so far, and 0, the
\* id of no playlist
RequestedPlaylistIds == 0..created

\* the playlist service: concurrent requests against the store
CallPlaylists(p, max) ==
  /\ calls < max
  /\ \/ \E u \in Users : Call_addPlaylist(p, u)
     \/ \E pl \in RequestedPlaylistIds, u \in Users : Call_deletePlaylistById(p, pl, u)
     \/ \E pl \in RequestedPlaylistIds, s \in SongIds, u \in Users :
          Call_addPlaylistSong(p, pl, s, u)
     \/ \E pl \in RequestedPlaylistIds, u \in Users : Call_getPlaylistSongsById(p, pl, u)
     \/ \E pl \in RequestedPlaylistIds, s \in SongIds, u \in Users :
          Call_deletePlaylistSong(p, pl, s, u)

StepPlaylists(p) ==
  \/ addPlaylist_insert(p)
  \/ verifyPlaylistOwner(p)
  \/ deletePlaylistById_delete(p)
  \/ addPlaylistSong_playlistCheck(p)
  \/ addPlaylistSong_songCheck(p)
  \/ addPlaylistSong_insert(p)
  \/ getPlaylistSongsById_playlist(p)
  \/ getPlaylistSongsById_songs(p)
  \/ deletePlaylistSong_delete(p)

NextPlaylists ==
  \/ \E p \in Procs : CallPlaylists(p, MaxPlaylistCalls)
  \/ \E p \in Procs : StepPlaylists(p)

SpecPlaylists == Init /\ [][NextPlaylists]_vars

\* the activity log next to the playlists it belongs to, one request at a
\* time; the records name songs of table songs
CallActivities(p, max) ==
  /\ calls < max
  /\ \/ \E u \in Users : Call_addPlaylist(p, u)
     \/ \E pl \in RequestedPlaylistIds, u \in Users : Call_deletePlaylistById(p, pl, u)
     \/ \E pl \in RequestedPlaylistIds, s \in Songs, u \in Users, a \in Actions :
          Call_addActivity(p, pl, s, u, a)
     \/ \E pl \in RequestedPlaylistIds : Call_getActivities(p, pl)

StepActivities(p) ==
  \/ addPlaylist_insert(p)
  \/ verifyPlaylistOwner(p)
  \/ deletePlaylistById_delete(p)
  \/ addActivity_insert(p)
  \/ getActivities_select(p)

\* one request at a time: the same task serves them all
Server == CHOOSE p \in Procs : TRUE

NextActivities ==
  \/ AllIdle /\ CallActivities(Server, MaxActivityCalls)
  \/ StepActivities(Server)
  \/ AllIdle /\ Tick

SpecActivities == Init /\ [][NextActivities]_vars

\* likes requests and gated playlist requests side by side, Redis may be
\* unreachable; every store and cache call that a task has issued returns
\* (termination does not depend on which album a request names: one album)
TermAlbums == { CHOOSE a \in Albums : TRUE }

CallTerm(p, max) ==
  /\ calls < max
  /\ \/ \E u \in Users, a \in TermAlbums : Call_addLike(p, u, a)
     \/ \E u \in Users, a \in TermAlbums : Call_deleteLike(p, u, a)
     \/ \E a \in TermAlbums : Call_countLikes(p, a)
     \/ \E u \in Users : Call_addPlaylist(p, u)
     \/ \E pl \in RequestedPlaylistIds, u \in Users : Call_getPlaylistSongsById(p, pl, u)

StepTerm(p) ==
  \/ Step(p)
  \/ addPlaylist_insert(p)
  \/ verifyPlaylistOwner(p)
  \/ getPlaylistSongsById_playlist(p)
  \/ getPlaylistSongsById_songs(p)

NextTerm ==
  \/ \E p \in Procs : CallTerm(p, MaxTermCalls)
  \/ \E p \in Procs : StepTerm(p)
  \/ Disconnect
  \/ Reconnect

SpecTerm == Init /\ [][NextTerm]_vars /\ \A p \in Procs : WF_vars(StepTerm(p))

\* the likes routes: every request goes through its handler; albums are added
\* and deleted meanwhile; Redis reachable
CallHandlers(p, max) ==
  /\ calls < max
  /\ \/ \E u \in Users, a \in Albums : postLikeHandler(p, u, a)
     \/ \E u \in Users, a \in Albums : deleteLikeHandler(p, u, a)
     \/ \E a \in Albums : getLikesHandler(p, a)

StepHandlers(p) ==
  \/ getAlbumById_album(p)
  \/ getAlbumById_songs(p)
  \/ Step(p)

NextHandlers ==
  \/ \E p \in Procs : CallHandlers(p, MaxHandlerCalls)
  \/ \E p \in Procs : StepHandlers(p)
  \/ \E a \in Albums : addAlbum(a)
  \/ \E a \in Albums : deleteAlbumById(a)

SpecHandlers == Init /\ [][NextHandlers]_vars

\* the in-memory SongService: its methods are called one after the other
NextSongs ==
  \/ \E t \in Titles : addSong(t)
  \/ \E id \in RequestedSongIds : getSongById(id)
  \/ \E id \in RequestedSongIds, t \in Titles : editSongById(id, t)
  \/ \E id \in RequestedSongIds : deleteSongById(id)

SpecSongs == Init /\ [][NextSongs]_vars

TypeOK ==
  /\ \A r \in likes : r.id \in LikeIds /\ r.user_id \in Users /\ r.album_id \in Albums
  /\ \A k \in Keys : cache[k] = Absent \/ cache[k].EX = DefaultExpiration
  /\ connected \in BOOLEAN
  /\ \A p \in Procs : outcome[p].kind \in
       {"none", "ok", "ConflictError", "NotFoundError", "AuthorizationError",
        "StoreFailure", "CacheTransportFailure"}
  /\ \A r \in playlists : r.id \in 1..created /\ r.owner \in Users
  /\ \A r \in playlistSongs : r.playlist_id \in 1..created /\ r.song_id \in Songs

\* ------------------------------------------------------------------ claims
LikeCount(a)  == Cardinality({ r \in likes : r.album_id = a })
SamePair(p, q) == userId[p] = userId[q] /\ albumId[p] = albumId[q]
Returned(p, method) == pc[p] = "idle" /\ op[p] = method /\ outcome[p].kind # "none"
\* the last calls of p and q were in flight at the same time
Concurrent(p, q) == p # q /\ q \in overlap[p] /\ p \in overlap[q]

\* C1: two concurrent addLike(s, r) calls on a pair that was not liked end
\* with exactly one success and one ConflictError.
C1_ConcurrentAddLikeOneWins ==
  \A p, q \in Procs :
    ( /\ Concurrent(p, q) /\ SamePair(p, q)
      /\ Returned(p, "addLike") /\ Returned(q, "addLike")
      /\ ~likedAtCall[p] /\ ~likedAtCall[q] )
    => { outcome[p].kind, outcome[q].kind } = { "ok", "ConflictError" }

\* C2: the store never holds more than one like row for a (user, album) pair.
C2_AtMostOneRowPerPair ==
  \A u \in Users, a \in Albums : Cardinality(RowsOf(likes, u, a)) <= 1

\* C2 witness: two addLike calls raced on one pair, the second INSERT was
\* rejected and one row is there.
C2_Witness ==
  \E p, q \in Procs :
    /\ Concurrent(p, q) /\ SamePair(p, q)
    /\ Returned(p, "addLike") /\ outcome[p].kind = "StoreFailure"
    /\ op[q] = "addLike"
    /\ Cardinality(RowsOf(likes, userId[p], albumId[p])) = 1

\* C3: with one request at a time, an addLike(s, r) whose pair's last successful
\* mutation was an addLike fails with ConflictError; otherwise it succeeds and
\* returns the id of the pair's new row.
C3_AddTwiceInSequence ==
  [][ \A p \in Procs :
        (Returns(p) /\ op[p] = "addLike") =>
          IF hist[userId[p], albumId[p]] = "added"
            THEN outcome'[p].kind = "ConflictError"
            ELSE /\ outcome'[p].kind = "ok"
                 /\ \E r \in RowsOf(likes', userId[p], albumId[p]) :
                      r.id = outcome'[p].value ]_vars

\* C3 witness: the second addLike of a pair has failed with ConflictError.
C3_Witness ==
  \E p \in Procs :
    /\ Returned(p, "addLike") /\ outcome[p].kind = "ConflictError"
    /\ hist[userId[p], albumId[p]] = "added"

\* C4: the first countLikes(r) called after a successful addLike / deleteLike
\* on r returned does not serve a count cached from before the mutation: it is
\* tagged computed (fromCache = false), and in no case does it hand out from
\* the cache a count that differs from the store's.
C4_NextReadAfterMutationFresh ==
  \A p \in Procs :
    (Returned(p, "countLikes") /\ first[p] = "mutated")
    => /\ outcome[p].kind = "ok"
       /\ outcome[p].fromCache => outcome[p].value = LikeCount(albumId[p])

\* C5: when no operation is in flight, the cache entry of every album is
\* absent or holds the number of like rows of the album.
C5_QuiescentCacheCoherent ==
  AllIdle =>
    \A a \in Albums :
      \/ cache[CacheKey(a)] = Absent
      \/ JSONParse(cache[CacheKey(a)].value) = LikeCount(a)

\* C6: the step that acknowledges an addLike / deleteLike is the step after
\* the store write in which the album's cache entry is deleted; no mutation is
\* acknowledged with its invalidation not executed.
C6_InvalidateBeforeAck ==
  [][ \A p \in Procs :
        Mutates(p) =>
          /\ pc[p] \in { "addLike:invalidate", "deleteLike:invalidate" }
          /\ result[p] # NoIds
          /\ likes' = likes
          /\ cache'[CacheKey(albumId[p])] = Absent ]_vars

\* C6 witness: an addLike was acknowledged after a countLikes had filled the
\* album's entry, and the entry is gone.
C6_Witness ==
  \E p, q \in Procs :
    /\ Returned(p, "addLike") /\ outcome[p].kind = "ok"
    /\ Returned(q, "countLikes") /\ outcome[q].kind = "ok" /\ ~outcome[q].fromCache
    /\ albumId[p] = albumId[q]
    /\ fresh[albumId[p]] = "mutated"
    /\ cache[CacheKey(albumId[p])] = Absent

\* C7: with one request at a time and no like of the album removed, countLikes
\* returns the number N of users whose addLike succeeded, tagged computed on
\* the first call after the entry was emptied and cache on the later calls.
SuccessfulAdds(a) == Cardinality({ u \in Users : hist[u, a] = "added" })
NoneRemoved(a)    == \A u \in Users : hist[u, a] # "removed"

C7_CountAfterNAdds ==
  [][ \A p \in Procs :
        (Returns(p) /\ op[p] = "countLikes" /\ NoneRemoved(albumId[p])) =>
          outcome'[p] = Ok(SuccessfulAdds(albumId[p]), first[p] = "no") ]_vars

\* C7 witness: after two users liked the album, a later countLikes returned 2
\* from the cache.
C7_Witness ==
  \E p \in Procs :
    /\ Returned(p, "countLikes") /\ outcome[p] = Ok(2, TRUE)
    /\ SuccessfulAdds(albumId[p]) = 2 /\ NoneRemoved(albumId[p])

\* C8: a countLikes whose cache lookup failed with a transport failure does
\* not go on to the store recomputation as if the key were absent.
C8_TransportFailureIsNotAMiss ==
  \A p \in Procs :
    pc[p] \in { "countLikes:query", "countLikes:set" } => error[p] # "transport"

\* C9: a mutation whose cache delete fails after its store write committed
\* keeps the store write and returns success.
C9_FailedInvalidationStillSuccess ==
  [][ \A p \in Procs :
        ( /\ Returns(p) /\ ~connected
          /\ pc[p] \in { "addLike:invalidate", "deleteLike:invalidate" } )
        => (outcome'[p].kind = "ok" /\ likes' = likes) ]_vars

\* C10: an addLike whose INSERT is rejected by the uniqueness constraint
\* fails with ConflictError.
C10_ConstraintViolationIsConflict ==
  [][ \A p \in Procs :
        ( /\ pc[p] = "addLike:insert" /\ Returns(p)
          /\ UniqueViolation(likes, userId[p], albumId[p]) )
        => outcome'[p].kind = "ConflictError" ]_vars

C12_ConflictChangesNothing ==
  [][ \A p \in Procs :
        (Returns(p) /\ op[p] = "addLike" /\ outcome'[p].kind = "ConflictError")
        => (likes' = likes /\ cache' = cache) ]_vars

\* C12 witness: an addLike has failed with ConflictError while the album's
\* count is cached.
C12_Witness ==
  \E p \in Procs :
    /\ Returned(p, "addLike") /\ outcome[p].kind = "ConflictError"
    /\ cache[CacheKey(albumId[p])] # Absent
    /\ JSONParse(cache[CacheKey(albumId[p])].value) = LikeCount(albumId[p])
    /\ LikeCount(albumId[p]) > 0

\* C13: with one request at a time, every countLikes(r) returns an integer,
\* and the same integer as the previous countLikes(r) when no addLike or
\* deleteLike on r was called in between, whether it is computed in the store
\* or read from the cache; the text written to the cache parses back to the
\* integer that was computed, for every count up to MaxCount.
C13_RepeatedCountSame ==
  /\ \A n \in 0..MaxCount : JSONParse(JSONStringify(n)) = n
  /\ [][ \A p \in Procs :
           /\ (Returns(p) /\ op[p] = "countLikes") =>
                /\ outcome'[p].kind = "ok"
                /\ lastCount[albumId[p]] # -1 =>
                     outcome'[p].value = lastCount[albumId[p]]
           /\ (pc[p] = "countLikes:set" /\ Returns(p)) =>
                /\ cache'[CacheKey(albumId[p])] # Absent
                /\ JSONParse(cache'[CacheKey(albumId[p])].value) = count[p] ]_vars

\* C13 witness: a countLikes of an album with like rows was answered from the
\* cache with the integer an earlier countLikes had returned.
C13_Witness ==
  \E p \in Procs :
    /\ Returned(p, "countLikes") /\ outcome[p].fromCache
    /\ outcome[p].value = lastCount[albumId[p]]
    /\ outcome[p].value > 0

\* C14: a countLikes(r) called on an absent entry while no addLike or
\* deleteLike on r is in flight, alone or next to other such calls, returns
\* the number of like rows of r and leaves the entry of r equal to that
\* number; no step of any countLikes removes a cache entry.
C14_ColdConcurrentCounts ==
  [][ \A p \in Procs :
        /\ (Returns(p) /\ op[p] = "countLikes" /\ coldClean[p]) =>
             /\ outcome'[p].kind = "ok"
             /\ outcome'[p].value = LikeCount(albumId[p])
             /\ cache'[CacheKey(albumId[p])] # Absent
             /\ JSONParse(cache'[CacheKey(albumId[p])].value) = LikeCount(albumId[p])
        /\ (op[p] = "countLikes" /\ pc[p] # "idle" /\ pc'[p] # pc[p]) =>
             \A k \in Keys : cache[k] # Absent => cache'[k] # Absent ]_vars

\* C14 witness: two countLikes of the same album with like rows overlapped,
\* both started on the absent entry with no mutation in flight, and both
\* have returned; one of them was answered by the entry the other wrote.
C14_Witness ==
  \E p, q \in Procs :
    /\ Concurrent(p, q) /\ albumId[p] = albumId[q]
    /\ Returned(p, "countLikes") /\ Returned(q, "countLikes")
    /\ coldClean[p] /\ coldClean[q]
    /\ LikeCount(albumId[p]) > 0
    /\ outcome[p].fromCache /\ ~outcome[q].fromCache

\* C15: with one request at a time, losing a cache entry between requests
\* changes no like row, and the first countLikes(r) called after the entry of
\* r was lost returns exactly the number of like rows of r, tagged computed.
C15_CacheLossHarmless ==
  [][ /\ \A p \in Procs :
           (Returns(p) /\ op[p] = "countLikes" /\ first[p] = "expired") =>
             outcome'[p] = Ok(LikeCount(albumId[p]), FALSE)
      /\ \A a \in Albums :
           (pc' = pc /\ cache[CacheKey(a)] # Absent /\ cache'[CacheKey(a)] = Absent)
             => likes' = likes ]_vars

\* C15 witness: the entry of an album with like rows was lost and the next
\* countLikes has returned the computed count.
C15_Witness ==
  \E p \in Procs :
    /\ Returned(p, "countLikes") /\ first[p] = "expired"
    /\ outcome[p].kind = "ok" /\ ~outcome[p].fromCache
    /\ outcome[p].value > 0

\* the cached count of album a differs from the number of like rows of a
Stale(a) ==
  /\ cache[CacheKey(a)] # Absent
  /\ JSONParse(cache[CacheKey(a)].value) # LikeCount(a)

\* C16: every cache entry carries the expiry of DefaultExpiration seconds,
\* and when entries with an expiry do expire, a state where the cached count
\* of r differs from the store's count is always followed by a state where
\* the entry of r is absent or equal to the store's count.
C16_StaleEntryEventuallyGone ==
  /\ [](\A k \in Keys : cache[k] # Absent => cache[k].EX = DefaultExpiration)
  /\ \A a \in Albums : Stale(a) ~> ~Stale(a)

\* C16 witness: no request is in flight and the entry written by a countLikes
\* differs from the store's count.
C16_Witness ==
  \E a \in Albums :
    /\ AllIdle /\ Stale(a)
    /\ \E p \in Procs : Returned(p, "countLikes") /\ albumId[p] = a
                          /\ ~outcome[p].fromCache

\* ----------------------------------------------------------- playlist claims
PlaylistWritten == playlists' # playlists \/ playlistSongs' # playlistSongs

\* C17: the step of verifyPlaylistOwner(p, u) writes nothing to the store;
\* it throws NotFoundError when no row of p exists, whoever u is, throws
\* AuthorizationError when the row of p has another owner than u, and
\* otherwise returns normally, so that the operation goes on to its next await.
C17_VerifyPlaylistOwnerOutcome ==
  [][ \A p \in Procs : AtGate(p) =>
        /\ ~PlaylistWritten
        /\ IF \A r \in playlists : r.id # playlistId[p]
             THEN Returns(p) /\ outcome'[p].kind = "NotFoundError"
           ELSE IF \E r \in playlists : r.id = playlistId[p] /\ r.owner # userId[p]
             THEN Returns(p) /\ outcome'[p].kind = "AuthorizationError"
           ELSE ~Returns(p) /\ pc'[p] = AfterGate(op[p]) ]_vars

\* C17 witness: one request of a user who owns no playlist was refused with
\* NotFoundError for a playlist that does not exist, and one with
\* AuthorizationError for a playlist that another user owns.
C17_Witness ==
  \E p, q \in Procs :
    /\ pc[p] = "idle" /\ gate[p] = "NotFoundError"
    /\ pc[q] = "idle" /\ gate[q] = "AuthorizationError"
    /\ \A r \in playlists : r.owner # userId[p]
    /\ \E r \in playlists : r.id = playlistId[q] /\ r.owner # userId[q]

\* C18: a step that changes table playlists or playlist_songs is either the
\* INSERT of addPlaylist or a step of an operation whose verifyPlaylistOwner
\* has returned normally before; the change is confined to the rows of the
\* operation's playlist, and the caller is the owner of that playlist.
C18_NoWriteWithoutGate ==
  [][ PlaylistWritten =>
        \E p \in Procs :
          /\ pc'[p] # pc[p]
          /\ \/ op[p] = "addPlaylist"
             \/ /\ op[p] \in {"deletePlaylistById", "addPlaylistSong", "deletePlaylistSong"}
                /\ gate[p] = "ok"
                /\ << playlistId[p], userId[p] >> \in passed
                /\ \E r \in playlists : r.id = playlistId[p] /\ r.owner = userId[p]
                /\ playlists' \subseteq playlists
                /\ \A r \in playlists \ playlists' : r.id = playlistId[p]
                /\ \A r \in (playlistSongs \ playlistSongs') \cup (playlistSongs' \ playlistSongs) :
                     r.playlist_id = playlistId[p] ]_vars

\* C18 witness: the owner has added a song to a playlist, another user's
\* mutation of the same playlist was refused, and the membership is there.
C18_Witness ==
  \E p, q \in Procs :
    /\ Returned(p, "addPlaylistSong") /\ outcome[p].kind = "ok"
    /\ Returned(q, "deletePlaylistById") /\ gate[q] = "AuthorizationError"
    /\ playlistId[q] = playlistId[p]
    /\ MembershipRows(playlistSongs, playlistId[p], songId[p]) # {}

\* C19: verifyPlaylistOwner and the mutation it guards are separate store
\* steps: the step of the gate writes nothing and, when it passes, leaves the
\* operation suspended at its next await; a mutation step that runs after the
\* playlist row has gone fails and writes nothing.  (The witness is the state
\* the claim says is reachable.)
C19_GateAndMutationSeparate ==
  [][ \A p \in Procs :
        /\ (AtGate(p) /\ gate'[p] = "ok") =>
             (pc'[p] \notin {"idle", "verifyPlaylistOwner"} /\ UNCHANGED << playlists, playlistSongs >>)
        /\ (staleGate'[p] /\ ~staleGate[p]) =>
             /\ Returns(p) /\ outcome'[p].kind \in {"NotFoundError", "StoreFailure"}
             /\ UNCHANGED << playlists, playlistSongs >> ]_vars

\* C19 witness: an operation's gate passed, the playlist was then deleted by
\* another request, and the operation's INSERT or DELETE on playlist_songs
\* ran against the missing playlist.
C19_Witness ==
  \E p \in Procs :
    /\ staleGate[p] /\ gate[p] = "ok"
    /\ op[p] \in {"addPlaylistSong", "deletePlaylistSong"}
    /\ playlistId[p] \in deleted
    /\ \E q \in overlap[p] : Returned(q, "deletePlaylistById") /\ outcome[q].kind = "ok"
                               /\ playlistId[q] = playlistId[p]

\* C20: a deleted playlist has no row any more, and every verifyPlaylistOwner
\* for it throws NotFoundError, whoever calls and whatever passed before.
C20_DeletedPlaylistNotFound ==
  /\ [](\A r \in playlists : r.id \notin deleted)
  /\ [][ \A p \in Procs : (AtGate(p) /\ playlistId[p] \in deleted) =>
           (Returns(p) /\ outcome'[p].kind = "NotFoundError") ]_vars

\* C20 witness: the former owner, whose verifyPlaylistOwner had returned
\* normally, was refused with NotFoundError after the playlist was deleted.
C20_Witness ==
  \E p \in Procs :
    /\ pc[p] = "idle" /\ gate[p] = "NotFoundError"
    /\ playlistId[p] \in deleted
    /\ << playlistId[p], userId[p] >> \in passed

\* C21: an addPlaylistSong of the owner for a (playlist, song) pair that is
\* already a membership fails with ConflictError and leaves exactly one
\* membership row of the pair.
C21_DuplicateMembershipIsConflict ==
  [][ \A p \in Procs :
        ( /\ pc[p] = "addPlaylistSong:insert" /\ Returns(p)
          /\ MembershipRows(playlistSongs, playlistId[p], songId[p]) # {}
          /\ \E r \in playlists : r.id = playlistId[p] /\ r.owner = userId[p] )
        => /\ outcome'[p].kind = "ConflictError"
           /\ Cardinality(MembershipRows(playlistSongs', playlistId[p], songId[p])) = 1 ]_vars

\* ------------------------------------------------------- activity-log claims
\* C22: once a request that added a song to a playlist, or removed one from
\* it, has succeeded, the log holds a record of that playlist, song, user and
\* action.
C22_MutationIsLogged ==
  \A p \in Procs :
    ( /\ pc[p] = "idle" /\ outcome[p].kind = "ok"
      /\ op[p] \in {"addPlaylistSong", "deletePlaylistSong"}
      /\ playlistId[p] \notin deleted )
    => \E r \in activities :
         /\ r.playlist_id = playlistId[p] /\ r.song_id = songId[p]
         /\ r.user_id = userId[p]
         /\ r.action = (IF op[p] = "addPlaylistSong" THEN "add" ELSE "delete")

RECURSIVE IsSubsequence(_, _)
\* the records of a occur in b, in the same relative order
IsSubsequence(a, b) ==
  IF a = << >> THEN TRUE
  ELSE IF b = << >> THEN FALSE
  ELSE IF Head(a) = Head(b) THEN IsSubsequence(Tail(a), Tail(b))
  ELSE IsSubsequence(a, Tail(b))

\* the records added for playlist pl have pairwise different times
DistinctTimes(pl) ==
  \A i, j \in 1..Len(appended[pl]) :
    i # j => appended[pl][i].time # appended[pl][j].time

\* C24: what a getActivities(p) has returned is returned again, unchanged and
\* in the same relative order, by every later getActivities(p), whatever
\* operations came in between (here even for records of different times only).
C24_LogIsAppendOnly ==
  [][ \A p \in Procs :
        (Returns(p) /\ op[p] = "getActivities" /\ DistinctTimes(playlistId[p])) =>
          IsSubsequence(lastListed[playlistId[p]], listed'[p]) ]_vars

C30_ConcurrentDeletePlaylistOneWins ==
  \A p, q \in Procs :
    ( /\ Concurrent(p, q) /\ playlistId[p] = playlistId[q]
      /\ Returned(p, "deletePlaylistById") /\ Returned(q, "deletePlaylistById")
      /\ ownedAtCall[p] /\ ownedAtCall[q] )
    => \/ outcome[p].kind = "ok" /\ outcome[q].kind = "NotFoundError"
       \/ outcome[q].kind = "ok" /\ outcome[p].kind = "NotFoundError"

\* C30 witness: two such calls have both passed the gate; one deleted the
\* playlist and the DELETE of the other found no row.
C30_Witness ==
  \E p, q \in Procs :
    /\ Concurrent(p, q) /\ playlistId[p] = playlistId[q]
    /\ Returned(p, "deletePlaylistById") /\ Returned(q, "deletePlaylistById")
    /\ ownedAtCall[p] /\ ownedAtCall[q]
    /\ gate[p] = "ok" /\ gate[q] = "ok"
    /\ outcome[p].kind = "ok" /\ outcome[q].kind = "NotFoundError"

\* C28: a step of addLike, deleteLike or countLikes for album r leaves the
\* cache entry of every other album as it is; different albums have different
\* keys; the entry of r is the one a countLikes(r) writes and the one a
\* successful addLike or deleteLike on r deletes.
C28_OnlyOwnKeyTouched ==
  /\ \A a, b \in Albums : CacheKey(a) = CacheKey(b) => a = b
  /\ [][ \A p \in Procs :
           (op[p] \in {"addLike", "deleteLike", "countLikes"} /\ pc'[p] # pc[p]
              /\ pc[p] # "idle") =>
             /\ \A a \in Albums \ {albumId[p]} : cache'[CacheKey(a)] = cache[CacheKey(a)]
             /\ (pc[p] = "countLikes:set" /\ Returns(p)) =>
                  cache'[CacheKey(albumId[p])] # Absent
             /\ (pc[p] \in {"addLike:invalidate", "deleteLike:invalidate"} /\ Returns(p)) =>
                  cache'[CacheKey(albumId[p])] = Absent ]_vars

\* C28 witness: the counts of two albums were cached, then an addLike on one
\* of them succeeded: its entry is gone and the other album's entry is there.
C28_Witness ==
  \E p, q \in Procs : \E a \in Albums \ {albumId[p]} :
    /\ Returned(p, "addLike") /\ outcome[p].kind = "ok"
    /\ Returned(q, "countLikes") /\ albumId[q] = albumId[p] /\ ~outcome[q].fromCache
    /\ fresh[albumId[p]] = "mutated"
    /\ cache[CacheKey(albumId[p])] = Absent
    /\ cache[CacheKey(a)] # Absent

LikesAndGateSteps ==
  { "addLike:check", "addLike:insert", "addLike:invalidate",
    "deleteLike:delete", "deleteLike:invalidate",
    "countLikes:get", "countLikes:query", "countLikes:set", "verifyPlaylistOwner" }

\* C27: an invocation issues each of its store and cache calls at most once:
\* a step of a task either ends the invocation or takes it to an await it has
\* not been at, and a step that fails ends it; a task in an invocation can
\* always take its next step, whatever the other tasks do; and when the calls
\* it issues return, every invocation ends with a result or an error.
C27_NoRetryAndTermination ==
  /\ [][ \A p \in Procs :
           (pc[p] \in LikesAndGateSteps /\ pc'[p] # pc[p]) =>
             /\ pc[p] \notin issued[p]
             /\ pc'[p] \notin issued[p]
             /\ Returns(p) => outcome'[p].kind # "none"
             /\ \A q \in Procs \ {p} : pc'[q] = pc[q] ]_vars
  /\ [](\A p \in Procs : pc[p] \in LikesAndGateSteps => ENABLED <<StepTerm(p)>>_vars)
  /\ \A p \in Procs : (pc[p] # "idle") ~> (pc[p] = "idle")

\* C27 witness: a countLikes has issued its three calls, the last of which
\* failed, and has ended with that failure; a gate has ended another call.
C27_Witness ==
  \E p, q \in Procs :
    /\ Returned(p, "countLikes") /\ outcome[p].kind = "CacheTransportFailure"
    /\ issued[p] = {"countLikes:get", "countLikes:query", "countLikes:set"}
    /\ pc[q] = "idle" /\ issued[q] = {"verifyPlaylistOwner"}

\* C31: a likes handler (POST, DELETE, GET) whose getAlbumById finds no row for
\* the album fails at once with NotFoundError: the request has issued that one
\* SELECT and nothing else, no like row is inserted or deleted and no cache
\* entry is read, written or deleted.
C31_MissingAlbumStopsHandler ==
  [][ \A p \in Procs :
        ( /\ handler[p] # "none"
          /\ pc[p] = "getAlbumById:album" /\ pc'[p] # pc[p]
          /\ albumId[p] \notin albums )
        => /\ pc'[p] = "idle"
           /\ outcome'[p].kind = "NotFoundError"
           /\ issued'[p] = {"getAlbumById:album"}
           /\ likes' = likes
           /\ cache' = cache ]_vars

\* two requests, one of them a POST, have failed on a missing album
C31_Witness ==
  \E p, q \in Procs :
    /\ p # q
    /\ handler[p] = "postLikeHandler" /\ handler[q] # "postLikeHandler"
    /\ handler[q] # "none"
    /\ \A r \in {p, q} : /\ pc[r] = "idle"
                         /\ outcome[r].kind = "NotFoundError"
                         /\ issued[r] = {"getAlbumById:album"}
                         /\ albumId[r] \notin albums

\* C32: getPlaylistSongsById is gated. Its verifyPlaylistOwner step throws
\* NotFoundError when the playlist has no row, AuthorizationError when the row
\* has another owner than the caller, and lets the call go on otherwise; the
\* last step returns the playlist with its songs; and a call that has returned
\* them has passed the gate as the owner: no playlist of another user is ever
\* returned.
C32_ReadIsGated ==
  /\ [][ \A p \in Procs : (op[p] = "getPlaylistSongsById" /\ AtGate(p)) =>
           IF PlaylistRows(playlists, playlistId[p]) = {}
             THEN Returns(p) /\ outcome'[p].kind = "NotFoundError"
           ELSE IF \E r \in playlists : r.id = playlistId[p] /\ r.owner # userId[p]
             THEN Returns(p) /\ outcome'[p].kind = "AuthorizationError"
           ELSE pc'[p] = "getPlaylistSongsById:playlist" ]_vars
  /\ [][ \A p \in Procs :
           (pc[p] = "getPlaylistSongsById:songs" /\ pc'[p] # pc[p]) =>
             /\ Returns(p) /\ outcome'[p].kind = "ok"
             /\ outcome'[p].value =
                  Cardinality(RowsOfPlaylist(playlistSongs, playlistId[p])) ]_vars
  /\ [] \A p \in Procs :
         (Returned(p, "getPlaylistSongsById") /\ outcome[p].kind = "ok") =>
           /\ gate[p] = "ok"
           /\ << playlistId[p], userId[p] >> \in passed
           /\ \A r \in playlists : r.id = playlistId[p] => r.owner = userId[p]

\* C32 witness: the owner has read their playlist, and another user's read of
\* the same playlist was refused with AuthorizationError.
C32_Witness ==
  \E p, q \in Procs :
    /\ Returned(p, "getPlaylistSongsById") /\ outcome[p].kind = "ok"
    /\ \E r \in playlists : r.id = playlistId[p] /\ r.owner = userId[p]
    /\ Returned(q, "getPlaylistSongsById") /\ outcome[q].kind = "AuthorizationError"
    /\ playlistId[q] = playlistId[p] /\ userId[q] # userId[p]

\* C33: an addPlaylistSong of the playlist's owner for a song id that table
\* songs does not hold ends with NotFoundError, none of its steps changes
\* table playlist_songs, and its song check is the step that refuses it when
\* it is reached.
C33_MissingSongNotFound ==
  /\ [] \A p \in Procs :
         ( /\ Returned(p, "addPlaylistSong") /\ ownedAtCall[p]
           /\ songId[p] \notin Songs )
         => outcome[p].kind = "NotFoundError"
  /\ [][ \A p \in Procs :
           ( /\ op[p] = "addPlaylistSong" /\ songId[p] \notin Songs
             /\ pc[p] # "idle" /\ pc'[p] # pc[p] )
           => /\ playlistSongs' = playlistSongs
              /\ pc[p] = "addPlaylistSong:songCheck" =>
                    (Returns(p) /\ outcome'[p].kind = "NotFoundError") ]_vars
  /\ [] \A r \in playlistSongs : r.song_id \in Songs

\* C33 witness: the owner's addPlaylistSong got as far as the song check and
\* was refused there; the playlist is still there, without the song.
C33_Witness ==
  \E p \in Procs :
    /\ Returned(p, "addPlaylistSong") /\ ownedAtCall[p] /\ gate[p] = "ok"
    /\ songId[p] \notin Songs
    /\ "addPlaylistSong:songCheck" \in issued[p]
    /\ outcome[p].kind = "NotFoundError"
    /\ \E r \in playlists : r.id = playlistId[p] /\ r.owner = userId[p]
    /\ MembershipRows(playlistSongs, playlistId[p], songId[p]) = {}

\* ------------------------------------------------------ in-memory SongService
SongIdsOf(list) == { list[i].id : i \in 1..Len(list) }
SongIdSeq(list) == [i \in 1..Len(list) |-> list[i].id]

\* C34: in the in-memory SongService, (a) getSongById of an id that addSong has
\* returned and deleteSongById has not removed returns a song with that id, and
\* addSong does return an id that is then in the list; (b) editSongById and
\* deleteSongById of an id that is not in the list throw NotFoundError and
\* leave the list unchanged; (c) editSongById of an id in the list returns
\* normally and keeps the ids, their order and the number of songs.
C34_InMemorySongs ==
  /\ [] ( /\ SongIdsOf(songs) = (1..songsAdded) \ removedSongs
          /\ songCall.method = "addSong" =>
                (songCall.outcome = "ok" /\ songCall.id = songsAdded)
          /\ ( /\ songCall.method = "getSongById"
               /\ songCall.id \in (1..songsAdded) \ removedSongs )
             => (songCall.outcome = "ok" /\ songCall.value.id = songCall.id) )
  /\ [][ /\ ( /\ songCall'.method \in {"editSongById", "deleteSongById"}
               /\ songCall'.id \notin SongIdsOf(songs) )
             => (songCall'.outcome = "NotFoundError" /\ songs' = songs)
         /\ ( /\ songCall'.method = "editSongById"
               /\ songCall'.id \in SongIdsOf(songs) )
             => /\ songCall'.outcome = "ok"
                /\ SongIdSeq(songs') = SongIdSeq(songs) ]_vars

\* C34 witness: three songs were added, one was deleted, and the last call
\* edited one of the two that are left
C34_Witness ==
  /\ songsAdded = 3 /\ Len(songs) = 2 /\ removedSongs # {}
  /\ songCall.method = "editSongById" /\ songCall.outcome = "ok"
  /\ \E i \in 1..Len(songs) : songs[i].id = songCall.id /\ songs[i].title = "t2"
====
